---- MODULE Spec2Model ----
(***************************************************************************)
(* Liquidity Ladder Engine (r3m3mb3r/DLI): the scheduler loop, run_once,   *)
(* ladder.run (baselines + sweep) and the run/point store, as one state    *)
(* machine.  One process executes a controller command (schedule:run or    *)
(* run:once); the oracle, the price resolver, the database and the other   *)
(* CLI commands are its environment.                                       *)
(*                                                                         *)
(* Conventions.  A Python value that may be None / an absent dict key is   *)
(* a sequence of length 0 or 1 (None == <<>>, Some(v) == <<v>>).  A        *)
(* Decimal is the fraction <<n, d>> in lowest terms with d > 0 of a value  *)
(* the decimal context can hold: every quotient, product and difference    *)
(* is rounded half-even to prec significant digits, as the context does.   *)
(* Addresses are integers; a symbol is its rank in SQLite's collation      *)
(* order.                                                                  *)
(***************************************************************************)
EXTENDS Integers, Sequences, FiniteSets, TLC

VARIABLES
  config,        \* config.json
  token_pairs,   \* table token_pairs
  ladder_runs,   \* table ladder_runs
  ladder_points, \* table ladder_points
  seq_run_id,    \* sqlite_sequence of ladder_runs (AUTOINCREMENT)
  clock,         \* int(time.time())
  market,        \* the pricing the oracle answers with
  cmd,           \* the controller command the process executes
  pc,            \* the process's position
  exit,          \* how the process ended
  sched,         \* locals of scheduler_loop
  ro,            \* locals of run_once
  lr,            \* locals of ladder.run / compute_baselines / ladder_sweep
  pending,       \* the exception travelling through run_once's finally
  olog,          \* oracle calls and rate-limit sleeps of the current ladder.run
  report,        \* one entry per target attempted by the current run_once
  cycles,        \* iterations of scheduler_loop started
  faults,        \* failures injected by the environment so far
  cmds,          \* commands other processes have executed so far
  call           \* the db_helper call a client of the store made last

vars == <<config, token_pairs, ladder_runs, ladder_points, seq_run_id, clock,
          market, cmd, pc, exit, sched, ro, lr, pending, olog, report,
          cycles, faults, cmds, call>>

(* ------------------------------ bounds -------------------------------- *)

MaxPairs == 2
MaxCycles == 2
MaxFaults == 2
MaxCmds == 1
MaxRuns == 2

(* ----------------------------- optionals ------------------------------ *)

None == <<>>
Some(v) == <<v>>
IsNone(o) == Len(o) = 0
Val(o) == o[1]

(* ------------------------------ Decimal ------------------------------- *)

Abs(x) == IF x < 0 THEN -x ELSE x

RECURSIVE GCD(_, _)
GCD(a, b) == IF b = 0 THEN a ELSE GCD(b, a % b)

RECURSIVE Pow10(_)
Pow10(k) == IF k <= 0 THEN 1 ELSE 10 * Pow10(k - 1)

Dec(n, d) ==
  LET g == GCD(Abs(n), Abs(d))
      s == IF d < 0 THEN -1 ELSE 1
  IN  <<(s * n) \div g, (s * d) \div g>>

DInt(n) == <<n, 1>>

\* getcontext().prec: the significant digits an arithmetic result keeps.  The
\* source sets 80; the model keeps 4, so that coefficients fit TLC's integers.
prec == 4

\* long division of r / d continued below the units: <<m, r, k>> with
\* m = the digits so far, r = the remainder, k = the decimal places taken;
\* it stops when the quotient is exact or m reaches lim
RECURSIVE Digits(_, _, _, _, _)
Digits(m, r, d, k, lim) ==
  IF r = 0 \/ m >= lim THEN <<m, r, k>>
  ELSE Digits(10 * m + (10 * r) \div d, (10 * r) % d, d, k + 1, lim)

\* the least 10^j with a \div (d * 10^j) below top
RECURSIVE Drop(_, _, _, _)
Drop(a, d, t, top) == IF a \div (d * t) < top THEN t ELSE Drop(a, d, 10 * t, top)

\* ROUND_HALF_EVEN of the quotient m with remainder r of a division by d
HalfEven(m, r, d) ==
  IF 2 * r > d \/ (2 * r = d /\ m % 2 = 1) THEN m + 1 ELSE m

\* the exact value x rounded to p significant digits
DRoundTo(x, p) ==
  LET a == Abs(x[1])
      d == x[2]
      s == IF x[1] < 0 THEN -1 ELSE 1
      t == Drop(a, d, 1, Pow10(p))
      f == Digits(a \div d, a % d, d, 0, Pow10(p - 1))
  IN  IF a % d = 0 /\ a \div d < Pow10(p) THEN x
      ELSE IF t > 1
        THEN <<s * HalfEven(a \div (d * t), a % (d * t), d * t) * t, 1>>
        ELSE Dec(s * HalfEven(f[1], f[2], d), Pow10(f[3]))

\* the context's rounding of an arithmetic result
DRound(x) == DRoundTo(x, prec)

DDiv(a, b) == DRound(Dec(a[1] * b[2], a[2] * b[1]))
DMul(a, b) == DRound(Dec(a[1] * b[1], a[2] * b[2]))
DSub(a, b) == DRound(Dec(a[1] * b[2] - b[1] * a[2], a[2] * b[2]))
DPos(a) == a[1] > 0

\* float(x): the nearest value a float holds.  A float keeps fewer digits
\* than the decimal context (15 against 80); the model keeps 3 against 4.
float_dig == 3
float(x) == DRoundTo(x, float_dig)

\* float(x or 0)
float_or_zero(o) == IF IsNone(o) THEN Some(DInt(0)) ELSE Some(float(Val(o)))

\* float(x) if x is not None else None
opt_float(o) == IF IsNone(o) THEN None ELSE Some(float(Val(o)))

(* ------------------------------ quote.py ------------------------------ *)

WETH_CA == 0

\* to_base_units: truncation toward zero of amt * 10^decimals; a negative
\* result raises ValueError.  (A negative amount that truncates to zero
\* yields Decimal("-0"), which is not < 0: it is returned, signed.)
to_base_units(amt, decimals) ==
  LET scaled == DMul(amt, DInt(Pow10(decimals)))
      num == scaled[1]
      mag == Abs(num) \div scaled[2]
  IN  IF num < 0 /\ mag > 0
        THEN [raised |-> TRUE, neg |-> TRUE, n |-> mag]
        ELSE [raised |-> FALSE, neg |-> num < 0, n |-> mag]

\* The oracle's answer to get_price when the request succeeds (HTTP 200).
\* BUY direction is selling the quote asset (WETH) for the base asset.
\* "flat": one base unit for one quote unit at every size, either way;
\* "steep": the price worsens with the size; otherwise nothing is offered.
OracleBuyAmount(mkt, sell_token, sell_amount) ==
  LET buying == sell_token = WETH_CA
  IN  CASE mkt = "flat"  -> sell_amount
        [] mkt = "steep" -> IF buying
                              THEN 2 * sell_amount - (sell_amount * sell_amount) \div 50
                              ELSE sell_amount \div 2 - (sell_amount * sell_amount) \div 400
        [] OTHER         -> 0

OracleResponse(mkt, sell_token, buy_token, sell_amount) ==
  LET raw == OracleBuyAmount(mkt, sell_token, sell_amount)
      buy == IF raw < 0 THEN 0 ELSE raw
  IN  [sellToken |-> sell_token, buyToken |-> buy_token,
       sellAmount |-> sell_amount, buyAmount |-> buy,
       liquidityAvailable |-> buy > 0,
       fills |-> IF buy > 0
                   THEN IF mkt = "steep"
                          THEN <<[source |-> "Aerodrome", proportionBps |-> 4000],
                                 [source |-> "Uniswap_V3", proportionBps |-> 6000]>>
                          ELSE <<[source |-> "Uniswap_V3", proportionBps |-> 10000]>>
                   ELSE <<>>]

\* the top fill: the first one with the strictly largest proportionBps
RECURSIVE TopFill(_, _, _)
TopFill(fills, top_source, top_bps) ==
  IF fills = <<>> THEN [top_source |-> top_source, top_bps |-> top_bps]
  ELSE LET f == Head(fills)
       IN  IF f.proportionBps > top_bps
             THEN TopFill(Tail(fills), Some(f.source), f.proportionBps)
             ELSE TopFill(Tail(fills), top_source, top_bps)

parse_0x_price_response(resp, sell_decimals, buy_decimals) ==
  LET sell_amount == resp.sellAmount
      buy_amount  == resp.buyAmount
      sell_hr == IF sell_amount # 0
                   THEN DDiv(DInt(sell_amount), DInt(Pow10(sell_decimals))) ELSE DInt(0)
      buy_hr  == DDiv(DInt(buy_amount), DInt(Pow10(buy_decimals)))
      top     == TopFill(resp.fills, None, -1)
  IN  [sell_amount |-> sell_amount,
       buy_amount  |-> buy_amount,
       unit_price_human |-> IF sell_hr[1] # 0 THEN DDiv(buy_hr, sell_hr) ELSE DInt(0),
       liquidity_available |-> resp.liquidityAvailable,
       top_source |-> top.top_source,
       route_concentration_percent |->
         IF top.top_bps >= 0 THEN float(DDiv(DInt(top.top_bps), DInt(100))) ELSE DInt(0)]

(* ------------------------------ ladder.py ----------------------------- *)

\* the first entries of DEFAULT_USD_LADDER (the source lists 17 sizes)
DEFAULT_USD_LADDER == <<1, 5>>
DEFAULT_BASELINE_USD == 5

\* what get_token_usd answers when the cache or the price service has a price
QuoteUsdPrice == DInt(2)

\* the price ratio in bps, the baseline not taken off
ratio_bps(unit_baseline, unit_at_size) ==
  IF unit_baseline[1] <= 0 \/ unit_at_size[1] <= 0
    THEN None
    ELSE Some(DMul(DDiv(unit_baseline, unit_at_size), DInt(10000)))

impact_bps(unit_baseline, unit_at_size) ==
  IF unit_baseline[1] <= 0 \/ unit_at_size[1] <= 0
    THEN None
    ELSE Some(DMul(DSub(DDiv(unit_baseline, unit_at_size), DInt(1)), DInt(10000)))

\* a pick that ignores the wanted list
pick_any_pair(tp, wanted) == tp

\* pick_pair: the rows ladder.run may get.  With a wanted list: the matching
\* row of least base_address.  Without: the row of least rowid, which is any
\* row, insertion order not being part of the state.
pick_pair(tp, wanted) ==
  LET match == {r \in tp : \E k \in 1..Len(wanted) : wanted[k] = r.pair_address}
  IN  IF wanted # <<>>
        THEN {r \in match : \A q \in match : r.base_address <= q.base_address}
        ELSE tp

\* compute_baselines, first half: the BUY baseline request
baseline_quote_sell_units(quote_usd, baseline_usd, quote_dec) ==
  to_base_units(DDiv(baseline_usd, quote_usd), quote_dec)

\* BASE_USD inferred from the BUY baseline
infer_base_usd(quote_usd, unit_buy_baseline) ==
  IF DPos(unit_buy_baseline) THEN DDiv(quote_usd, unit_buy_baseline) ELSE DInt(0)

\* compute_baselines, second half: the SELL baseline request
baseline_base_sell_units(base_usd, baseline_usd, base_dec) ==
  to_base_units(DDiv(baseline_usd, IF DPos(base_usd) THEN base_usd ELSE DInt(1)), base_dec)

\* ladder_sweep: the two requests of one rung
sell_quote_units(usd, quote_usd, quote_dec) ==
  to_base_units(IF DPos(quote_usd) THEN DDiv(DInt(usd), quote_usd) ELSE DInt(0), quote_dec)

sell_base_units(usd, base_usd, base_dec) ==
  to_base_units(DDiv(DInt(usd), IF DPos(base_usd) THEN base_usd ELSE DInt(1)), base_dec)

\* the row ladder_sweep appends once both directions of a rung are quoted
sweep_row(usd, buy_bps, buy_parsed, sell_bps, sell_parsed) ==
  [usd |-> usd,
   buy_bps |-> buy_bps,
   sell_bps |-> sell_bps,
   buy_liquidity_available |-> Some(buy_parsed.liquidity_available),
   sell_liquidity_available |-> Some(sell_parsed.liquidity_available),
   buy_top_source |-> buy_parsed.top_source,
   buy_route_concentration_percent |-> Some(float(buy_parsed.route_concentration_percent)),
   sell_top_source |-> sell_parsed.top_source,
   sell_route_concentration_percent |-> Some(float(sell_parsed.route_concentration_percent))]

\* one entry of "rows" in the dict ladder.run returns
result_row(r) ==
  [r EXCEPT !.buy_bps = opt_float(@),
            !.sell_bps = opt_float(@),
            !.buy_route_concentration_percent = opt_float(@),
            !.sell_route_concentration_percent = opt_float(@)]

\* the dict ladder.run returns
run_result(l) ==
  [pair |-> l.pair,
   usd_ladder |-> l.ladder,
   baseline_usd |-> l.baseline_usd,
   quote_usd |-> float(l.quote_usd),
   base_usd |-> float(l.base_usd),
   unit_buy_baseline |-> l.unit_buy_baseline,
   unit_sell_baseline |-> l.unit_sell_baseline,
   rows |-> [k \in 1..Len(l.rows) |-> result_row(l.rows[k])]]

(* ---------------------------- controller.py --------------------------- *)

CONFIG_FILE_ABSENT ==
  [file |-> "missing", api_key |-> FALSE, pair_addresses |-> <<>>,
   ladder_values |-> None, ladder_baseline_usd |-> None,
   schedule_enabled |-> None, schedule_interval_secs |-> None,
   last_scheduler_heartbeat |-> None, last_scheduler_error |-> None]

\* load_cfg succeeds (otherwise it calls sys.exit(1))
load_cfg_ok(file) == file.file = "ok"

\* save_cfg: the file now holds cfg
save_cfg(cfg) == [cfg EXCEPT !.file = "ok"]

get_cfg_list(cfg) == cfg.pair_addresses

ensure_defaults(cfg) ==
  [cfg EXCEPT
     !.ladder_values = IF IsNone(@) THEN Some(DEFAULT_USD_LADDER) ELSE @,
     !.ladder_baseline_usd = IF IsNone(@) THEN Some(DEFAULT_BASELINE_USD) ELSE @,
     !.schedule_interval_secs = IF IsNone(@) THEN Some(900) ELSE @,
     !.schedule_enabled = IF IsNone(@) THEN Some(FALSE) ELSE @]

\* the file after ensure_defaults(load_cfg()): rewritten only when changed
file_after_ensure_defaults(file) ==
  IF ensure_defaults(file) # file THEN save_cfg(ensure_defaults(file)) ELSE file

\* rows a precedes b in ORDER BY base_symbol, quote_symbol, pair_address
pair_order_before(a, b) ==
  \/ a.base_symbol < b.base_symbol
  \/ a.base_symbol = b.base_symbol /\ a.quote_symbol < b.quote_symbol
  \/ a.base_symbol = b.base_symbol /\ a.quote_symbol = b.quote_symbol
       /\ a.pair_address <= b.pair_address

RECURSIVE list_pairs(_)
list_pairs(tp) ==
  IF tp = {} THEN <<>>
  ELSE LET first == CHOOSE r \in tp : \A q \in tp : pair_order_before(r, q)
       IN  <<first>> \o list_pairs(tp \ {first})

pair_address_of(rows) == [k \in 1..Len(rows) |-> rows[k].pair_address]

\* the ladder and baseline run_once hands to ladder.run
run_ladder_arg(cfg) ==
  IF IsNone(cfg.ladder_values) \/ Val(cfg.ladder_values) = <<>>
    THEN DEFAULT_USD_LADDER ELSE Val(cfg.ladder_values)

run_baseline_arg(cfg) ==
  IF IsNone(cfg.ladder_baseline_usd) THEN DEFAULT_BASELINE_USD ELSE Val(cfg.ladder_baseline_usd)

(* ----------------------------- db_helper.py --------------------------- *)

\* json.dumps of a list of integers, as the tokens of its text
JsonTok(t, n) == [t |-> t, n |-> n]

RECURSIVE json_items(_)
json_items(L) ==
  IF L = <<>> THEN <<>>
  ELSE IF Len(L) = 1 THEN <<JsonTok("int", L[1])>>
  ELSE <<JsonTok("int", Head(L)), JsonTok(",", 0)>> \o json_items(Tail(L))

\* the distinct sizes of L, ascending
RECURSIVE sorted_set(_)
sorted_set(S) ==
  IF S = {} THEN <<>>
  ELSE LET least == CHOOSE x \in S : \A y \in S : x <= y
       IN  <<least>> \o sorted_set(S \ {least})

\* json.dumps(sorted(set(L)))
json_dumps_sorted_set(L) ==
  <<JsonTok("[", 0)>> \o json_items(sorted_set({L[k] : k \in 1..Len(L)}))
     \o <<JsonTok("]", 0)>>

json_dumps(L) == <<JsonTok("[", 0)>> \o json_items(L) \o <<JsonTok("]", 0)>>

\* json.loads of such a text: its numbers, in the order they are written
json_loads(text) ==
  LET inner == SubSeq(text, 2, Len(text) - 1)
  IN  [k \in 1..((Len(inner) + 1) \div 2) |-> inner[2 * k - 1].n]

\* the keyword arguments save_ladder_result hands to create_ladder_run
save_run_args(res) ==
  [base_address |-> res.pair.base_address,
   pair_address |-> res.pair.pair_address,
   quote_address |-> res.pair.quote_address,
   baseline_usd |-> res.baseline_usd,
   quote_usd |-> float(res.quote_usd),
   base_usd |-> float(res.base_usd),
   unit_buy_baseline |-> res.unit_buy_baseline,
   unit_sell_baseline |-> res.unit_sell_baseline,
   usd_ladder |-> Some(res.usd_ladder)]

\* a rowid without AUTOINCREMENT: one more than the largest id in the table
max_rowid_plus_one(runs, seq) ==
  IF runs = {} THEN 1 ELSE (CHOOSE m \in {r.id : r \in runs} : \A r \in runs : r.id <= m) + 1

\* id INTEGER PRIMARY KEY AUTOINCREMENT: one more than the largest id the
\* table has ever held, which sqlite_sequence keeps
next_run_id(runs, seq) == seq + 1

\* FOREIGN KEY (base_address, pair_address) REFERENCES token_pairs
pair_exists(tp, args) ==
  \E r \in tp : r.base_address = args.base_address /\ r.pair_address = args.pair_address

\* create_ladder_run: the table with the new row, id being the next rowid
create_ladder_run(runs, id, now, args) ==
  runs \cup {[id |-> id, started_at |-> now,
              base_address |-> args.base_address,
              pair_address |-> args.pair_address,
              quote_address |-> args.quote_address,
              baseline_usd |-> args.baseline_usd,
              quote_usd |-> float(args.quote_usd),
              base_usd |-> float(args.base_usd),
              unit_buy_baseline |-> args.unit_buy_baseline,
              unit_sell_baseline |-> args.unit_sell_baseline,
              usd_ladder_json |-> IF IsNone(args.usd_ladder) THEN None
                                  ELSE Some(json_dumps(Val(args.usd_ladder)))]}

\* the tuples of all rows but the last
point_rows_but_last(rows) ==
  [k \in 1..(Len(rows) - 1) |->
     [rows[k] EXCEPT !.buy_bps = opt_float(@),
                     !.sell_bps = opt_float(@),
                     !.buy_route_concentration_percent = opt_float(@),
                     !.sell_route_concentration_percent = opt_float(@)]]

\* the tuples save_ladder_result hands to bulk_insert_ladder_points
point_rows(rows) ==
  [k \in 1..Len(rows) |->
     [rows[k] EXCEPT !.buy_bps = opt_float(@),
                     !.sell_bps = opt_float(@),
                     !.buy_route_concentration_percent = opt_float(@),
                     !.sell_route_concentration_percent = opt_float(@)]]

\* 1 if x else 0 if x is not None else None
opt_int_of_bool(o) == IF IsNone(o) THEN None ELSE Some(IF Val(o) THEN 1 ELSE 0)

\* bool(x) if x is not None else None
opt_bool_of_int(o) == IF IsNone(o) THEN None ELSE Some(Val(o) # 0)

\* a connection that leaves foreign_keys off
foreign_keys_off(runs, run_id) == TRUE

\* FOREIGN KEY (run_id) REFERENCES ladder_runs(id), enforced by the writers
run_exists(runs, run_id) == \E r \in runs : r.id = run_id

\* INSERT ... ON CONFLICT(run_id, usd) DO NOTHING, one row
insert_or_ignore_point(points, run_id, row) ==
  IF \E p \in points : p.run_id = run_id /\ p.usd = row.usd THEN points
  ELSE points \cup {[run_id |-> run_id, usd |-> row.usd,
                     buy_bps |-> row.buy_bps, sell_bps |-> row.sell_bps,
                     buy_liquidity_available |-> IF IsNone(row.buy_liquidity_available)
                       THEN None ELSE Some(IF Val(row.buy_liquidity_available) THEN 1 ELSE 0),
                     sell_liquidity_available |-> IF IsNone(row.sell_liquidity_available)
                       THEN None ELSE Some(IF Val(row.sell_liquidity_available) THEN 1 ELSE 0),
                     buy_top_source |-> row.buy_top_source,
                     buy_route_concentration_percent |-> row.buy_route_concentration_percent,
                     sell_top_source |-> row.sell_top_source,
                     sell_route_concentration_percent |->
                       row.sell_route_concentration_percent]}

\* INSERT ... ON CONFLICT(run_id, usd) DO UPDATE, one row
upsert_point(points, run_id, row) ==
  {p \in points : ~(p.run_id = run_id /\ p.usd = row.usd)}
     \cup {[run_id |-> run_id, usd |-> row.usd,
            buy_bps |-> opt_float(row.buy_bps),
            sell_bps |-> opt_float(row.sell_bps),
            buy_liquidity_available |-> opt_int_of_bool(row.buy_liquidity_available),
            sell_liquidity_available |-> opt_int_of_bool(row.sell_liquidity_available),
            buy_top_source |-> row.buy_top_source,
            buy_route_concentration_percent |->
              opt_float(row.buy_route_concentration_percent),
            sell_top_source |-> row.sell_top_source,
            sell_route_concentration_percent |->
              opt_float(row.sell_route_concentration_percent)]}

\* insert_ladder_point raises IntegrityError and stores nothing
insert_ladder_point_raises(runs, run_id) == ~run_exists(runs, run_id)

insert_ladder_point(points, runs, run_id, row) ==
  IF insert_ladder_point_raises(runs, run_id) THEN points
  ELSE upsert_point(points, run_id, row)

\* executemany over the rows, in the order given
RECURSIVE upsert_points(_, _, _)
upsert_points(points, run_id, rows) ==
  IF rows = <<>> THEN points
  ELSE upsert_points(upsert_point(points, run_id, Head(rows)), run_id, Tail(rows))

\* bulk_insert_ladder_points raises IntegrityError; its transaction is rolled back
bulk_insert_ladder_points_raises(runs, run_id, rows) ==
  rows # <<>> /\ ~run_exists(runs, run_id)

bulk_insert_ladder_points(points, runs, run_id, rows) ==
  IF bulk_insert_ladder_points_raises(runs, run_id, rows) THEN points
  ELSE upsert_points(points, run_id, rows)

\* ORDER BY started_at DESC, id DESC: row a sorts before row b
ordered_before(a, b) ==
  \/ a.started_at > b.started_at
  \/ a.started_at = b.started_at /\ a.id > b.id

\* the rows of ladder_runs in the order of SQL_LIST_LADDER_RUNS
RECURSIVE order_runs(_)
order_runs(runs) ==
  IF runs = {} THEN <<>>
  ELSE LET first == CHOOSE r \in runs : \A o \in runs \ {r} : ordered_before(r, o)
       IN  <<first>> \o order_runs(runs \ {first})

\* list_ladder_runs: LIMIT ? OFFSET ? over the ordered rows, where SQLite
\* takes a negative LIMIT as no limit and a negative OFFSET as zero; the
\* header columns the model's rows hold
list_ladder_runs(runs, limit, offset) ==
  LET all == order_runs(runs)
      skip == IF offset < 0 THEN 0 ELSE offset
      rest == SubSeq(all, skip + 1, Len(all))
      n == IF limit < 0 \/ limit > Len(rest) THEN Len(rest) ELSE limit
  IN  [k \in 1..n |-> [id |-> rest[k].id, started_at |-> rest[k].started_at,
                       base_address |-> rest[k].base_address,
                       pair_address |-> rest[k].pair_address,
                       quote_address |-> rest[k].quote_address,
                       baseline_usd |-> rest[k].baseline_usd]]

\* get_ladder_run: None, or the header with its ladder decoded
get_ladder_run(runs, run_id) ==
  IF ~run_exists(runs, run_id) THEN None
  ELSE LET row == CHOOSE r \in runs : r.id = run_id
       IN  Some([id |-> row.id, started_at |-> row.started_at,
                 base_address |-> row.base_address,
                 pair_address |-> row.pair_address,
                 quote_address |-> row.quote_address,
                 baseline_usd |-> row.baseline_usd,
                 quote_usd |-> float(row.quote_usd),
                 base_usd |-> float(row.base_usd),
                 unit_buy_baseline |-> row.unit_buy_baseline,
                 unit_sell_baseline |-> row.unit_sell_baseline,
                 usd_ladder |-> IF ~IsNone(row.usd_ladder_json)
                                     /\ Val(row.usd_ladder_json) # <<>>
                                  THEN Some(json_loads(Val(row.usd_ladder_json)))
                                  ELSE None])

\* one row as get_ladder_points returns it
read_point(p) ==
  [p EXCEPT !.buy_bps = opt_float(@),
            !.sell_bps = opt_float(@),
            !.buy_liquidity_available = opt_bool_of_int(@),
            !.sell_liquidity_available = opt_bool_of_int(@),
            !.buy_route_concentration_percent = opt_float(@),
            !.sell_route_concentration_percent = opt_float(@)]

\* ORDER BY usd DESC
RECURSIVE order_by_usd_desc(_)
order_by_usd_desc(ps) ==
  IF ps = {} THEN <<>>
  ELSE LET first == CHOOSE p \in ps : \A q \in ps : p.usd >= q.usd
       IN  <<first>> \o order_by_usd_desc(ps \ {first})

\* ORDER BY usd ASC
RECURSIVE order_by_usd(_)
order_by_usd(ps) ==
  IF ps = {} THEN <<>>
  ELSE LET first == CHOOSE p \in ps : \A q \in ps : p.usd <= q.usd
       IN  <<first>> \o order_by_usd(ps \ {first})

get_ladder_points(points, run_id) ==
  LET found == order_by_usd({p \in points : p.run_id = run_id})
  IN  [k \in 1..Len(found) |-> read_point(found[k])]

\* delete_ladder_run: the header goes, and ON DELETE CASCADE takes its points
delete_ladder_run_header(runs, run_id) == {r \in runs : r.id # run_id}

\* a delete that does not cascade
points_kept(points, run_id) == points

delete_ladder_run_points(points, run_id) == {p \in points : p.run_id # run_id}

(* --------------------------- process state ---------------------------- *)

NoRow ==
  [base_address |-> 0, base_symbol |-> 0, base_decimals |-> 0,
   pair_address |-> 0, quote_address |-> 0, quote_symbol |-> 0, quote_decimals |-> 0]

NoParsed ==
  [sell_amount |-> 0, buy_amount |-> 0, unit_price_human |-> DInt(0),
   liquidity_available |-> FALSE, top_source |-> None,
   route_concentration_percent |-> DInt(0)]

SchedIdle == [cfg |-> CONFIG_FILE_ABSENT, interval |-> 0]

RoIdle ==
  [cfg |-> CONFIG_FILE_ABSENT, targets |-> <<>>, idx |-> 0, run_ids |-> <<>>,
   orig_cfg |-> CONFIG_FILE_ABSENT]

LrIdle ==
  [pair |-> NoRow, ladder |-> <<>>, baseline_usd |-> 0,
   quote_usd |-> DInt(0), base_usd |-> DInt(0),
   unit_buy_baseline |-> DInt(0), unit_sell_baseline |-> DInt(0),
   i |-> 0, buy_bps |-> None, buy_parsed |-> NoParsed, rows |-> <<>>]

NotExited == [kind |-> "none", cause |-> "none"]

NoCall == [op |-> "none", run_id |-> 0, rows |-> <<>>, usd_ladder |-> None,
           raised |-> FALSE, args |-> <<>>, returned |-> <<>>]

IsScheduler == cmd.name = "schedule:run"

\* the environment may still make a call fail
MayFail == faults < MaxFaults

OracleEvent(phase, side, rung, usd, ok) ==
  [ev |-> "price", phase |-> phase, side |-> side,
   rung |-> rung, usd |-> usd, ok |-> ok]

SleepEvent(rung) ==
  [ev |-> "sleep", phase |-> "rung", side |-> "-",
   rung |-> rung, usd |-> 0, ok |-> TRUE]

ReportEntry(result, cause, created, npoints) ==
  [pair |-> ro.targets[ro.idx], row |-> lr.pair, result |-> result, cause |-> cause,
   created |-> created, points |-> npoints]

(* ------------------------- exception routing -------------------------- *)

\* scheduler_loop's "except Exception": record the error and a heartbeat
sched_record_error(cfg, cause, now) ==
  [cfg EXCEPT !.last_scheduler_error = Some(cause),
              !.last_scheduler_heartbeat = Some(now)]

\* The process ends: its locals are gone.
ExitProcess(kind, cause, file) ==
  /\ pc' = "exited"
  /\ exit' = [kind |-> kind, cause |-> cause]
  /\ config' = file
  /\ sched' = SchedIdle
  /\ ro' = RoIdle
  /\ olog' = <<>>
  /\ report' = <<>>

\* An exception leaves run_once (or is raised in scheduler_loop's try block
\* outside run_once).  file is config.json as the raising code left it.
\* Under schedule:run an Exception is recorded and the loop goes on,
\* KeyboardInterrupt breaks the loop, anything else (SystemExit) is not
\* caught.  Under run:once nothing catches it.
RaiseToCaller(kind, cause, file) ==
  IF IsScheduler /\ kind = "Exception"
    THEN /\ sched' = [sched EXCEPT !.cfg = sched_record_error(sched.cfg, cause, clock)]
         /\ config' = save_cfg(sched_record_error(sched.cfg, cause, clock))
         /\ pc' = "interval_sleep"
         /\ ro' = RoIdle
         /\ UNCHANGED <<exit, olog, report>>
    ELSE ExitProcess(IF IsScheduler /\ kind = "KeyboardInterrupt" THEN "interrupted" ELSE kind,
                     cause, file)

\* a handler that catches nothing
CatchesNothing(kind) == FALSE

\* run_once's "except Exception as e: print([warn] ...)": SystemExit and
\* KeyboardInterrupt derive from BaseException only
WarnAndContinue(kind) == kind = "Exception"

\* An exception inside run_once's try block: "except Exception" prints a
\* warning and swallows it; KeyboardInterrupt is re-raised and SystemExit is
\* not caught, both after the finally block.
RaiseInAttempt(kind, cause, created, npoints) ==
  /\ report' = Append(report, ReportEntry(IF WarnAndContinue(kind) THEN "failed" ELSE "raised",
                                          cause, created, npoints))
  /\ pending' = IF WarnAndContinue(kind) THEN "none" ELSE kind
  /\ lr' = LrIdle
  /\ pc' = "ro_finally"

(* ------------------------------- Init --------------------------------- *)

\* token_pairs rows: pair k trades base k against WETH; symbols rank in the
\* reverse order of the addresses.  SharedRow is a second base asset listed
\* on the pool of pair 1.
PairRow(k) ==
  [base_address |-> k, base_symbol |-> MaxPairs + 1 - k, base_decimals |-> 2,
   pair_address |-> k, quote_address |-> WETH_CA, quote_symbol |-> 0,
   quote_decimals |-> 1]

SharedRow == [PairRow(MaxPairs + 1) EXCEPT !.pair_address = 1]

PairChoices ==
  {{PairRow(k) : k \in 1..n} : n \in 0..MaxPairs} \cup {{PairRow(1), SharedRow}}

\* the optional keys of config.json: none of them (a fresh file), or the
\* ladder and the schedule keys as earlier commands left them
FreshKeys ==
  [ladder_values |-> None, ladder_baseline_usd |-> None,
   schedule_enabled |-> None, schedule_interval_secs |-> None,
   last_scheduler_heartbeat |-> None, last_scheduler_error |-> None]

OptionalKeyChoices ==
  {FreshKeys}
  \cup
  {[ladder_values |-> Some(<<2, 1, 2>>), ladder_baseline_usd |-> Some(1),
    schedule_enabled |-> Some(en), schedule_interval_secs |-> Some(x[1]),
    last_scheduler_heartbeat |-> Some(0), last_scheduler_error |-> x[2]] :
     en \in BOOLEAN, x \in {<<1, None>>, <<1, Some("old")>>, <<-1, None>>}}

\* config.json as the process may find it: unreadable, or readable with or
\* without the API key (without it: a fresh file, or a schedule left enabled)
ReadableConfig(k, pa, o) ==
  [file |-> "ok", api_key |-> k, pair_addresses |-> pa,
   ladder_values |-> o.ladder_values, ladder_baseline_usd |-> o.ladder_baseline_usd,
   schedule_enabled |-> o.schedule_enabled,
   schedule_interval_secs |-> o.schedule_interval_secs,
   last_scheduler_heartbeat |-> o.last_scheduler_heartbeat,
   last_scheduler_error |-> o.last_scheduler_error]

ConfigChoices ==
  {[CONFIG_FILE_ABSENT EXCEPT !.file = f] : f \in {"missing", "unparseable"}}
  \cup
  {ReadableConfig(TRUE, pa, o) : pa \in {<<>>, <<MaxPairs>>}, o \in OptionalKeyChoices}
  \cup
  {ReadableConfig(FALSE, pa, o) :
     pa \in {<<>>, <<MaxPairs>>},
     o \in {c \in OptionalKeyChoices :
              \/ c = FreshKeys
              \/ /\ c.schedule_enabled = Some(TRUE)
                 /\ c.schedule_interval_secs = Some(1)
                 /\ c.last_scheduler_error = None}}

\* a command line: run:once [--pair P | --all] [--ladder L] [--baseline B]
Command(name, pair, use_all, ladder, baseline) ==
  [name |-> name, pair |-> pair, use_all |-> use_all, ladder |-> ladder,
   baseline |-> baseline]

\* schedule:run, or run:once [--pair P | --all]; pair MaxPairs + 2 is in no table
Commands ==
  {Command("schedule:run", None, FALSE, None, None),
   Command("run:once", None, FALSE, None, None),
   Command("run:once", None, TRUE, None, None),
   Command("run:once", Some(1), FALSE, None, None),
   Command("run:once", Some(MaxPairs + 2), FALSE, None, None)}

Markets == {"flat", "steep", "dry"}

Init ==
  /\ config \in ConfigChoices
  /\ token_pairs \in PairChoices
  /\ ladder_runs = {}
  /\ ladder_points = {}
  /\ seq_run_id = 0
  /\ clock = 1
  /\ market = "steep"
  /\ cmd \in Commands
  /\ pc = "main"
  /\ exit = NotExited
  /\ sched = SchedIdle
  /\ ro = RoIdle
  /\ lr = LrIdle
  /\ pending = "none"
  /\ olog = <<>>
  /\ report = <<>>
  /\ cycles = 0
  /\ faults = 0
  /\ cmds = 0
  /\ call = NoCall

(* -------------------------------- main -------------------------------- *)

\* main: ensure_defaults(load_cfg()), then the command's function
Main ==
  /\ pc = "main"
  /\ IF load_cfg_ok(config)
       THEN /\ config' = file_after_ensure_defaults(config)
            /\ pc' = IF IsScheduler THEN "sched_top" ELSE "ro_begin"
            /\ UNCHANGED <<exit, sched, ro, olog, report>>
       ELSE \* load_cfg: sys.exit(1) before the command starts
            ExitProcess("SystemExit", "startup", config)
  /\ UNCHANGED <<token_pairs, ladder_runs, ladder_points, seq_run_id, clock, market,
                 cmd, lr, pending, cycles, faults, cmds>>
  /\ UNCHANGED call

(* --------------------------- scheduler_loop --------------------------- *)

\* a flag that is always set
AlwaysEnabled(cfg) == TRUE

\* enabled = bool(cfg.get("schedule_enabled", False))
schedule_enabled(cfg) == ~IsNone(cfg.schedule_enabled) /\ Val(cfg.schedule_enabled)

\* while True: cfg = ensure_defaults(load_cfg()); enabled; interval
SchedLoadCfg ==
  /\ pc = "sched_top"
  /\ cycles < MaxCycles
  /\ cycles' = cycles + 1
  /\ IF load_cfg_ok(config)
       THEN /\ config' = file_after_ensure_defaults(config)
            /\ sched' = [cfg |-> ensure_defaults(config),
                         interval |-> Val(ensure_defaults(config).schedule_interval_secs)]
            /\ pc' = IF schedule_enabled(ensure_defaults(config))
                       THEN "sched_targets" ELSE "idle_sleep"
            /\ UNCHANGED <<exit, ro, olog, report>>
       ELSE \* load_cfg: sys.exit(1), outside the try block
            ExitProcess("SystemExit", "config", config)
  /\ UNCHANGED <<token_pairs, ladder_runs, ladder_points, seq_run_id, clock, market,
                 cmd, lr, pending, faults, cmds>>
  /\ UNCHANGED call

\* if not enabled: time.sleep(10); continue
SchedIdleSleep ==
  /\ pc = "idle_sleep"
  /\ clock' = clock + 1
  /\ sched' = SchedIdle
  /\ pc' = "sched_top"
  /\ UNCHANGED <<config, token_pairs, ladder_runs, ladder_points, seq_run_id, market,
                 cmd, exit, ro, lr, pending, olog, report, cycles, faults, cmds>>
  /\ UNCHANGED call

\* try: decide targets; none: sleep(interval), continue; else call run_once
SchedTargets ==
  /\ pc = "sched_targets"
  /\ \E db_ok \in {TRUE} \cup {b \in {FALSE} : MayFail /\ get_cfg_list(sched.cfg) = <<>>} :
       IF ~db_ok
         THEN \* list_pairs raises sqlite3.Error
              /\ faults' = faults + 1
              /\ RaiseToCaller("Exception", "db", config)
         ELSE /\ faults' = faults
              /\ LET targets == IF get_cfg_list(sched.cfg) # <<>>
                                  THEN get_cfg_list(sched.cfg)
                                  ELSE pair_address_of(list_pairs(token_pairs))
                 IN  pc' = IF targets = <<>> THEN "nopairs_sleep" ELSE "ro_begin"
              /\ UNCHANGED <<config, sched, exit, ro, olog, report>>
  /\ UNCHANGED <<token_pairs, ladder_runs, ladder_points, seq_run_id, clock, market,
                 cmd, lr, pending, cycles, cmds>>
  /\ UNCHANGED call

\* no pairs found: time.sleep(interval) inside the try block, then continue
SchedNoPairsSleep ==
  /\ pc = "nopairs_sleep"
  /\ IF sched.interval < 0
       THEN \* time.sleep raises ValueError
            /\ RaiseToCaller("Exception", "interval", config)
            /\ clock' = clock
       ELSE /\ clock' = clock + 1
            /\ sched' = SchedIdle
            /\ pc' = "sched_top"
            /\ UNCHANGED <<config, exit, ro, olog, report>>
  /\ UNCHANGED <<token_pairs, ladder_runs, ladder_points, seq_run_id, market,
                 cmd, lr, pending, cycles, faults, cmds>>
  /\ UNCHANGED call

\* a heartbeat that leaves last_scheduler_error in place
heartbeat_only(cfg, now) == [cfg EXCEPT !.last_scheduler_heartbeat = Some(now)]

\* cfg["last_scheduler_heartbeat"] = int(time.time());
\* cfg.pop("last_scheduler_error", None)
sched_record_success(cfg, now) ==
  [cfg EXCEPT !.last_scheduler_heartbeat = Some(now), !.last_scheduler_error = None]

\* run_once returned: heartbeat, clear the error, save_cfg(cfg)
SchedHeartbeat ==
  /\ pc = "ro_return"
  /\ sched' = [sched EXCEPT !.cfg = sched_record_success(sched.cfg, clock)]
  /\ config' = save_cfg(sched'.cfg)
  /\ ro' = RoIdle
  /\ pc' = "interval_sleep"
  /\ UNCHANGED <<token_pairs, ladder_runs, ladder_points, seq_run_id, clock, market,
                 cmd, exit, lr, pending, olog, report, cycles, faults, cmds>>
  /\ UNCHANGED call

\* time.sleep(interval), after the try block
SchedIntervalSleep ==
  /\ pc = "interval_sleep"
  /\ IF sched.interval < 0
       THEN \* ValueError, not caught
            /\ ExitProcess("Exception", "interval", config)
            /\ clock' = clock
       ELSE /\ clock' = clock + 1
            /\ sched' = SchedIdle
            /\ pc' = "sched_top"
            /\ olog' = <<>>
            /\ report' = <<>>
            /\ UNCHANGED <<config, exit, ro>>
  /\ UNCHANGED <<token_pairs, ladder_runs, ladder_points, seq_run_id, market,
                 cmd, lr, pending, cycles, faults, cmds>>
  /\ UNCHANGED call

(* ------------------------------ run_once ------------------------------ *)

\* the arguments: scheduler_loop calls run_once(pair=None, use_all=True, None, None)
RoPair == IF IsScheduler THEN None ELSE cmd.pair
RoUseAll == IF IsScheduler THEN TRUE ELSE cmd.use_all
RoOverrideLadder == IF IsScheduler THEN None ELSE cmd.ladder
RoOverrideBaseline == IF IsScheduler THEN None ELSE cmd.baseline

\* if override_ladder is not None: cfg["ladder_values"] = ...; the same
\* for override_baseline and cfg["ladder_baseline_usd"]
apply_ladder_overrides(cfg, override_ladder, override_baseline) ==
  [cfg EXCEPT
     !.ladder_values = IF IsNone(override_ladder) THEN @ ELSE override_ladder,
     !.ladder_baseline_usd = IF IsNone(override_baseline) THEN @ ELSE override_baseline]

\* cfg = ensure_defaults(load_cfg()); targets; the ladder overrides;
\* save_cfg(cfg); run_ids = []
RoBegin ==
  /\ pc = "ro_begin"
  /\ IF ~load_cfg_ok(config)
       THEN /\ RaiseToCaller("SystemExit", "config", config)
            /\ UNCHANGED faults
       ELSE \E db_ok \in {TRUE} \cup {b \in {FALSE} : MayFail /\ RoUseAll} :
              LET cfg0 == ensure_defaults(config)
                  cfg == apply_ladder_overrides(cfg0, RoOverrideLadder, RoOverrideBaseline)
                  targets == IF RoUseAll THEN pair_address_of(list_pairs(token_pairs))
                             ELSE IF ~IsNone(RoPair) THEN <<Val(RoPair)>>
                             ELSE get_cfg_list(cfg0)
              IN  IF ~db_ok
                    THEN \* list_pairs raises sqlite3.Error
                         /\ faults' = faults + 1
                         /\ RaiseToCaller("Exception", "db", file_after_ensure_defaults(config))
                  ELSE IF ~RoUseAll /\ targets = <<>>
                    THEN /\ RaiseToCaller("SystemExit", "no_target",
                                          file_after_ensure_defaults(config))
                         /\ UNCHANGED faults
                  ELSE /\ config' = save_cfg(cfg)
                       /\ ro' = [cfg |-> cfg, targets |-> targets, idx |-> 1,
                                 run_ids |-> <<>>, orig_cfg |-> CONFIG_FILE_ABSENT]
                       /\ pc' = "ro_next"
                       /\ UNCHANGED <<sched, exit, faults, olog, report>>
  /\ UNCHANGED <<token_pairs, ladder_runs, ladder_points, seq_run_id, clock, market,
                 cmd, lr, pending, cycles, cmds>>
  /\ UNCHANGED call

\* for p in targets: orig_cfg, _tmp = apply_pair_override_for_run(p)
RoOverride ==
  /\ pc = "ro_next"
  /\ ro.idx <= Len(ro.targets)
  /\ IF ~load_cfg_ok(config)
       THEN RaiseToCaller("SystemExit", "config", config)
       ELSE /\ config' = save_cfg([config EXCEPT !.pair_addresses = <<ro.targets[ro.idx]>>])
            /\ ro' = [ro EXCEPT !.orig_cfg = config]
            /\ pc' = "lr_start"
            /\ olog' = <<>>
            /\ UNCHANGED <<sched, exit, report>>
  /\ UNCHANGED <<token_pairs, ladder_runs, ladder_points, seq_run_id, clock, market,
                 cmd, lr, pending, cycles, faults, cmds>>
  /\ UNCHANGED call

\* return run_ids: to scheduler_loop, or to cmd_run_once, which returns
RoReturn ==
  /\ pc = "ro_next"
  /\ ro.idx > Len(ro.targets)
  /\ IF IsScheduler
       THEN pc' = "ro_return" /\ UNCHANGED <<exit, config, sched, ro, olog, report>>
       ELSE ExitProcess("returned", "none", config)
  /\ UNCHANGED <<token_pairs, ladder_runs, ladder_points, seq_run_id, clock,
                 market, cmd, lr, pending, cycles, faults, cmds>>
  /\ UNCHANGED call

\* a restore that writes the file without its pair list
restore_without_pairs(cfg) == save_cfg([cfg EXCEPT !.pair_addresses = <<>>])

\* restore_cfg: save_cfg(cfg)
restore_cfg(cfg) == save_cfg(cfg)

\* finally: restore_cfg(orig_cfg); time.sleep(1.0); then the next target, or
\* the exception that is on its way out
RoFinally ==
  /\ pc = "ro_finally"
  /\ clock' = clock + 1
  /\ IF pending # "none"
       THEN RaiseToCaller(pending, report[Len(report)].cause, restore_cfg(ro.orig_cfg))
       ELSE /\ config' = restore_cfg(ro.orig_cfg)
            /\ ro' = [ro EXCEPT !.idx = @ + 1, !.orig_cfg = CONFIG_FILE_ABSENT]
            /\ pc' = "ro_next"
            /\ UNCHANGED <<sched, exit, olog, report>>
  /\ pending' = "none"
  /\ UNCHANGED <<token_pairs, ladder_runs, ladder_points, seq_run_id, market,
                 cmd, lr, cycles, faults, cmds>>
  /\ UNCHANGED call

(* ------------------------------ ladder.run ---------------------------- *)

\* cfg, api key, pick_pair, get_token_usd
LrStart ==
  /\ pc = "lr_start"
  /\ \E outcome \in {"ok"} \cup {o \in {"db", "price"} : MayFail} :
       LET found == pick_pair(token_pairs, config.pair_addresses)
       IN  IF ~load_cfg_ok(config)
             THEN \* ladder.load_cfg raises FileNotFoundError / JSONDecodeError
                  /\ outcome = "ok"
                  /\ RaiseInAttempt("Exception", "config", {}, 0)
                  /\ UNCHANGED faults
           ELSE IF ~config.api_key
             THEN /\ outcome = "ok"
                  /\ RaiseInAttempt("SystemExit", "api_key", {}, 0)
                  /\ UNCHANGED faults
           ELSE IF outcome = "db"
             THEN /\ RaiseInAttempt("Exception", "db", {}, 0)
                  /\ faults' = faults + 1
           ELSE IF found = {}
             THEN /\ outcome = "ok"
                  /\ RaiseInAttempt("SystemExit", "no_pair", {}, 0)
                  /\ UNCHANGED faults
           ELSE IF outcome = "price"
             THEN /\ RaiseInAttempt("Exception", "price", {}, 0)
                  /\ faults' = faults + 1
           ELSE /\ \E pair \in found :
                     lr' = [LrIdle EXCEPT !.pair = pair,
                                          !.quote_usd = QuoteUsdPrice,
                                          !.baseline_usd = run_baseline_arg(ro.cfg),
                                          !.ladder = IF run_ladder_arg(ro.cfg) # <<>>
                                                       THEN run_ladder_arg(ro.cfg)
                                                       ELSE DEFAULT_USD_LADDER]
                /\ pc' = "base_buy"
                /\ UNCHANGED <<faults, report, pending>>
  /\ UNCHANGED <<config, token_pairs, ladder_runs, ladder_points, seq_run_id, clock,
                 market, cmd, exit, sched, ro, olog, cycles, cmds>>
  /\ UNCHANGED call

\* get_price: the oracle answers with status 200, or (while the environment
\* may still inject a failure) with an error status
PriceOutcomes == {TRUE} \cup {b \in {FALSE} : MayFail}

\* a get_price that returns whatever the status
never_raises(ok) == FALSE

\* get_price: if r.status_code != 200: raise RuntimeError
get_price_raises(ok) == ~ok

\* compute_baselines: BUY baseline (QUOTE -> BASE), base_usd
BaselineBuy ==
  /\ pc = "base_buy"
  /\ \E ok \in PriceOutcomes :
       LET units == baseline_quote_sell_units(lr.quote_usd, DInt(lr.baseline_usd),
                                              lr.pair.quote_decimals)
           resp == OracleResponse(market, lr.pair.quote_address, lr.pair.base_address, units.n)
           parsed == parse_0x_price_response(resp, lr.pair.quote_decimals,
                                             lr.pair.base_decimals)
       IN  /\ olog' = Append(olog, OracleEvent("baseline", "BUY", 0, lr.baseline_usd, ok))
           /\ IF ~get_price_raises(ok)
                THEN /\ lr' = [lr EXCEPT
                                 !.unit_buy_baseline = parsed.unit_price_human,
                                 !.base_usd = infer_base_usd(lr.quote_usd, parsed.unit_price_human)]
                     /\ pc' = "base_sell"
                     /\ UNCHANGED <<faults, report, pending>>
                ELSE /\ RaiseInAttempt("Exception", "baseline_buy", {}, 0)
                     /\ faults' = faults + 1
  /\ UNCHANGED <<config, token_pairs, ladder_runs, ladder_points, seq_run_id, clock,
                 market, cmd, exit, sched, ro, cycles, cmds>>
  /\ UNCHANGED call

\* compute_baselines: SELL baseline (BASE -> QUOTE); then ladder_sweep starts
BaselineSell ==
  /\ pc = "base_sell"
  /\ \E ok \in PriceOutcomes :
       LET units == baseline_base_sell_units(lr.base_usd, DInt(lr.baseline_usd),
                                             lr.pair.base_decimals)
           resp == OracleResponse(market, lr.pair.base_address, lr.pair.quote_address, units.n)
           parsed == parse_0x_price_response(resp, lr.pair.base_decimals,
                                             lr.pair.quote_decimals)
       IN  /\ olog' = Append(olog, OracleEvent("baseline", "SELL", 0, lr.baseline_usd, ok))
           /\ IF ~get_price_raises(ok)
                THEN /\ lr' = [lr EXCEPT !.unit_sell_baseline = parsed.unit_price_human,
                                         !.i = 1, !.rows = <<>>]
                     /\ pc' = IF lr.ladder = <<>> THEN "save" ELSE "rung_buy"
                     /\ UNCHANGED <<faults, report, pending>>
                ELSE /\ RaiseInAttempt("Exception", "baseline_sell", {}, 0)
                     /\ faults' = faults + 1
  /\ UNCHANGED <<config, token_pairs, ladder_runs, ladder_points, seq_run_id, clock,
                 market, cmd, exit, sched, ro, cycles, cmds>>
  /\ UNCHANGED call

\* the ladder walked from its far end
rung_usd_reversed(ladder, i) == ladder[Len(ladder) + 1 - i]

\* for usd in usd_ladder: the size of the i-th iteration
rung_usd(ladder, i) == ladder[i]

\* the oracle events of the BUY half of a rung: the call, then
\* ratelimit_sleep when the call returned
rung_buy_events(usd, ok) ==
  IF ~get_price_raises(ok) THEN <<OracleEvent("rung", "BUY", lr.i, usd, TRUE), SleepEvent(lr.i)>>
        ELSE <<OracleEvent("rung", "BUY", lr.i, usd, FALSE)>>

\* ladder_sweep: BUY side of rung i, then ratelimit_sleep
RungBuy ==
  /\ pc = "rung_buy"
  /\ \E ok \in PriceOutcomes :
       LET usd == rung_usd(lr.ladder, lr.i)
           units == sell_quote_units(usd, lr.quote_usd, lr.pair.quote_decimals)
           resp == OracleResponse(market, lr.pair.quote_address, lr.pair.base_address, units.n)
           parsed == parse_0x_price_response(resp, lr.pair.quote_decimals,
                                             lr.pair.base_decimals)
       IN  /\ olog' = olog \o rung_buy_events(usd, ok)
           /\ IF ~get_price_raises(ok)
                THEN /\ lr' = [lr EXCEPT
                                 !.buy_bps = impact_bps(lr.unit_buy_baseline,
                                                        parsed.unit_price_human),
                                 !.buy_parsed = parsed]
                     /\ pc' = "rung_sell"
                     /\ UNCHANGED <<faults, report, pending>>
                ELSE /\ RaiseInAttempt("Exception", "rung_buy", {}, 0)
                     /\ faults' = faults + 1
  /\ UNCHANGED <<config, token_pairs, ladder_runs, ladder_points, seq_run_id, clock,
                 market, cmd, exit, sched, ro, cycles, cmds>>
  /\ UNCHANGED call

\* ladder_sweep: SELL side of rung i, rows.append; after the last rung the
\* sweep returns and ladder.run returns its result
RungSell ==
  /\ pc = "rung_sell"
  /\ \E ok \in PriceOutcomes :
       LET usd == rung_usd(lr.ladder, lr.i)
           units == sell_base_units(usd, lr.base_usd, lr.pair.base_decimals)
           resp == OracleResponse(market, lr.pair.base_address, lr.pair.quote_address, units.n)
           parsed == parse_0x_price_response(resp, lr.pair.base_decimals,
                                             lr.pair.quote_decimals)
       IN  /\ olog' = Append(olog, OracleEvent("rung", "SELL", lr.i, usd, ok))
           /\ IF ~get_price_raises(ok)
                THEN /\ lr' = [lr EXCEPT
                                 !.rows = Append(@, sweep_row(usd, lr.buy_bps, lr.buy_parsed,
                                                   impact_bps(lr.unit_sell_baseline,
                                                              parsed.unit_price_human),
                                                   parsed)),
                                 !.i = @ + 1,
                                 !.buy_bps = None,
                                 !.buy_parsed = NoParsed]
                     /\ pc' = IF lr.i = Len(lr.ladder) THEN "save" ELSE "rung_buy"
                     /\ UNCHANGED <<faults, report, pending>>
                ELSE /\ RaiseInAttempt("Exception", "rung_sell", {}, 0)
                     /\ faults' = faults + 1
  /\ UNCHANGED <<config, token_pairs, ladder_runs, ladder_points, seq_run_id, clock,
                 market, cmd, exit, sched, ro, cycles, cmds>>
  /\ UNCHANGED call

\* run_once: rid = save_ladder_result(result); run_ids.append(rid).
\* create_ladder_run and bulk_insert_ladder_points commit separately.
Save ==
  /\ pc = "save"
  /\ \E outcome \in {"ok"} \cup {o \in {"save_run", "save_points"} : MayFail} :
       LET rid == next_run_id(ladder_runs, seq_run_id)
           res == run_result(lr)
       IN  IF outcome = "save_run"
             THEN /\ RaiseInAttempt("Exception", "save_run", {}, 0)
                  /\ faults' = faults + 1
                  /\ UNCHANGED <<ladder_runs, ladder_points, seq_run_id, ro>>
           ELSE IF outcome = "save_points"
             THEN /\ ladder_runs' = create_ladder_run(ladder_runs, rid, clock, save_run_args(res))
                  /\ seq_run_id' = rid
                  /\ RaiseInAttempt("Exception", "save_points", {rid}, 0)
                  /\ faults' = faults + 1
                  /\ UNCHANGED <<ladder_points, ro>>
           ELSE /\ ladder_runs' = create_ladder_run(ladder_runs, rid, clock, save_run_args(res))
                /\ seq_run_id' = rid
                /\ ladder_points' = bulk_insert_ladder_points(ladder_points, ladder_runs', rid,
                                                               point_rows(res.rows))
                /\ ro' = [ro EXCEPT !.run_ids = Append(@, rid)]
                /\ report' = Append(report, ReportEntry("saved", "none", {rid},
                                      Cardinality({q \in ladder_points' : q.run_id = rid})))
                /\ lr' = LrIdle
                /\ pc' = "ro_finally"
                /\ UNCHANGED <<faults, pending>>
  /\ UNCHANGED <<config, token_pairs, clock, market, cmd, exit, sched, olog, cycles, cmds>>
  /\ UNCHANGED call

(* --------------------------- the environment -------------------------- *)

OutsideTry == {"main", "sched_top", "idle_sleep", "interval_sleep"}
InsideAttempt == {"lr_start", "base_buy", "base_sell", "rung_buy", "rung_sell", "save"}

\* KeyboardInterrupt (Ctrl-C) reaches the process
Interrupt ==
  /\ pc # "exited"
  /\ pending = "none"
  /\ IF IsScheduler /\ pc \in OutsideTry
       THEN \* outside scheduler_loop's try block: not caught
            /\ ExitProcess("KeyboardInterrupt", "interrupt", config)
            /\ UNCHANGED <<pending, lr>>
     ELSE IF pc \in InsideAttempt
       THEN \* the interrupted ladder.run is over, its log with it
            /\ RaiseInAttempt("KeyboardInterrupt", "interrupt", {}, 0)
            /\ olog' = <<>>
            /\ UNCHANGED <<config, sched, exit, ro>>
     ELSE IF pc = "ro_finally"
       THEN \* during time.sleep(1.0), after restore_cfg
            /\ RaiseToCaller("KeyboardInterrupt", "interrupt", restore_cfg(ro.orig_cfg))
            /\ UNCHANGED <<pending, lr>>
     ELSE /\ RaiseToCaller("KeyboardInterrupt", "interrupt", config)
          /\ UNCHANGED <<pending, lr>>
  /\ UNCHANGED <<token_pairs, ladder_runs, ladder_points, seq_run_id, clock, market,
                 cmd, cycles, faults, cmds>>
  /\ UNCHANGED call

\* another process runs "controller.py schedule:enable" while the loop sleeps
CmdScheduleEnable ==
  /\ pc \in {"idle_sleep", "interval_sleep"}
  /\ cmds < MaxCmds
  /\ load_cfg_ok(config)
  /\ config' = save_cfg([config EXCEPT !.schedule_enabled = Some(TRUE),
                                       !.last_scheduler_heartbeat = Some(clock)])
  /\ cmds' = cmds + 1
  /\ UNCHANGED <<token_pairs, ladder_runs, ladder_points, seq_run_id, clock, market,
                 cmd, pc, exit, sched, ro, lr, pending, olog, report, cycles, faults>>
  /\ UNCHANGED call

\* another process runs "controller.py schedule:disable" while the loop sleeps
CmdScheduleDisable ==
  /\ pc \in {"idle_sleep", "interval_sleep"}
  /\ cmds < MaxCmds
  /\ load_cfg_ok(config)
  /\ config' = save_cfg([config EXCEPT !.schedule_enabled = Some(FALSE)])
  /\ cmds' = cmds + 1
  /\ UNCHANGED <<token_pairs, ladder_runs, ladder_points, seq_run_id, clock, market,
                 cmd, pc, exit, sched, ro, lr, pending, olog, report, cycles, faults>>
  /\ UNCHANGED call

\* while the loop sleeps config.json is removed, or is left unparseable by
\* another writer (save_cfg writes the file in place)
ConfigDamaged ==
  /\ pc \in {"idle_sleep", "interval_sleep"}
  /\ cmds < MaxCmds
  /\ load_cfg_ok(config)
  /\ \E f \in {"missing", "unparseable"} :
       config' = IF f = "missing" THEN CONFIG_FILE_ABSENT ELSE [config EXCEPT !.file = f]
  /\ cmds' = cmds + 1
  /\ UNCHANGED <<token_pairs, ladder_runs, ladder_points, seq_run_id, clock, market,
                 cmd, pc, exit, sched, ro, lr, pending, olog, report, cycles, faults>>
  /\ UNCHANGED call

(* --------------------------- specification ---------------------------- *)

Next ==
  \/ Main
  \/ SchedLoadCfg
  \/ SchedIdleSleep
  \/ SchedTargets
  \/ SchedNoPairsSleep
  \/ SchedHeartbeat
  \/ SchedIntervalSleep
  \/ RoBegin
  \/ RoOverride
  \/ RoReturn
  \/ RoFinally
  \/ LrStart
  \/ BaselineBuy
  \/ BaselineSell
  \/ RungBuy
  \/ RungSell
  \/ Save
  \/ Interrupt
  \/ CmdScheduleEnable
  \/ CmdScheduleDisable
  \/ ConfigDamaged

Spec == Init /\ [][Next]_vars

(* ------------------------ properties: run_once ------------------------ *)

BaselineCauses == {"baseline_buy", "baseline_sell"}

\* run_once has gone through all its targets and is about to return
RunOnceDone == pc = "ro_next" /\ ro.idx > Len(ro.targets)

\* the run report entry e speaks of is in the store, for e's pair
Persisted(e) ==
  \E r \in ladder_runs :
    /\ e.created = {r.id}
    /\ r.pair_address = e.pair
    /\ r.base_address = e.row.base_address
    /\ \E k \in 1..Len(ro.run_ids) : ro.run_ids[k] = r.id

\* C1: a baseline oracle failure (get_price raising in compute_baselines) is
\* reported for its target and never leaves run_once: it is not on its way
\* out during the finally block, and it is never what ended the process.
\* When run_once is done it has attempted every target, in order; the
\* targets whose baseline failed are reported failed with no run, and every
\* target reported saved has its run in ladder_runs and in run_ids.
C1_BaselineFailureContained ==
  /\ pc = "exited" => exit.cause \notin BaselineCauses
  /\ \A k \in 1..Len(report) :
       report[k].cause \in BaselineCauses =>
         /\ report[k].result = "failed"
         /\ report[k].created = {}
         /\ (k = Len(report) /\ pc = "ro_finally") => pending = "none"
  /\ RunOnceDone =>
       /\ Len(report) = Len(ro.targets)
       /\ \A k \in 1..Len(report) :
            /\ report[k].pair = ro.targets[k]
            /\ report[k].result \in {"saved", "failed"}
            /\ report[k].result = "saved" => Persisted(report[k])

\* C1 witness: run_once is done with two targets; the baseline of the first
\* failed, the second has its run persisted.
C1_Witness ==
  /\ RunOnceDone
  /\ Len(report) = 2
  /\ report[1].cause \in BaselineCauses
  /\ report[1].pair # report[2].pair
  /\ report[2].result = "saved"
  /\ Persisted(report[2])

(* ---------------------- properties: scheduler_loop -------------------- *)

\* the schedule:run process has ended after scheduler_loop was entered
LoopLeft == IsScheduler /\ pc = "exited" /\ exit.cause # "startup"

\* C2: scheduler_loop leaves its loop only on KeyboardInterrupt: whatever
\* config.json holds and whatever fails, a schedule:run process that has
\* ended was ended by a KeyboardInterrupt.
C2_LoopLeavesOnlyOnInterrupt ==
  LoopLeft => exit.kind \in {"interrupted", "KeyboardInterrupt"}

\* C3: a failure to read the configuration or to enumerate the pairs never
\* ends the scheduler; it is in last_scheduler_error, with a heartbeat of
\* this moment, when the cycle reaches its interval sleep.
C3_ConfigOrPairFailureRecorded ==
  IsScheduler =>
    /\ LoopLeft => exit.cause \notin {"config", "db"}
    /\ (pc = "interval_sleep" /\ config.last_scheduler_error = Some("db")) =>
         config.last_scheduler_heartbeat = Some(clock)

\* C4: in a cycle of the enabled scheduler the pairs run_once goes through
\* are those of pair_addresses when that list is not empty, and all of
\* token_pairs only when it is empty.
C4_ConfiguredPairsSwept ==
  (IsScheduler /\ pc = "ro_next") =>
    ro.targets = IF get_cfg_list(sched.cfg) # <<>>
                   THEN get_cfg_list(sched.cfg)
                   ELSE pair_address_of(list_pairs(token_pairs))

\* a step of the scheduler process itself (not of another command), other
\* than its being interrupted
SchedulerStep == IsScheduler /\ pc' # pc /\ pc' # "exited"

\* C5: while config.json has schedule_enabled false (or lacks the key), a
\* poll cycle of the scheduler (reading the flag, then the idle sleep) makes
\* no oracle call, creates no run and no point and leaves
\* last_scheduler_heartbeat as it is; after the sleep the loop is back at its
\* top, where the branch taken follows the flag as the file holds it then.
C5_IdlePollHasNoEffect ==
  [][/\ (SchedulerStep /\ pc = "sched_top" /\ load_cfg_ok(config)) =>
          (pc' = "idle_sleep") = (config.schedule_enabled # Some(TRUE))
     /\ (SchedulerStep /\ pc' = "idle_sleep") =>
          /\ config'.last_scheduler_heartbeat = config.last_scheduler_heartbeat
          /\ config'.last_scheduler_error = config.last_scheduler_error
          /\ UNCHANGED <<olog, ladder_runs, ladder_points, seq_run_id>>
     /\ (SchedulerStep /\ pc = "idle_sleep") =>
          /\ pc' = "sched_top"
          /\ UNCHANGED <<config, olog, ladder_runs, ladder_points, seq_run_id>>]_vars

\* C5 witness: a disabled scheduler in its second idle poll: nothing was
\* quoted or stored, the heartbeat is the one it started with.
C5_Witness ==
  /\ IsScheduler /\ pc = "idle_sleep" /\ cycles = 2 /\ cmds = 0
  /\ config.schedule_enabled = Some(FALSE)
  /\ config.last_scheduler_heartbeat = Some(0)
  /\ olog = <<>> /\ ladder_runs = {} /\ ladder_points = {}

\* C6: when run_once has returned to the scheduler, having attempted every
\* pair it went through (whether their runs were saved or failed), the
\* scheduler's next step leads to the interval sleep with config.json
\* holding a heartbeat of that moment and no last_scheduler_error.
C6_HeartbeatAfterCycle ==
  [][(SchedulerStep /\ pc = "ro_return") =>
       /\ Len(report) = Cardinality(token_pairs)
       /\ \A k \in 1..Len(report) : report[k].result \in {"saved", "failed"}
       /\ pc' = "interval_sleep"
       /\ config'.last_scheduler_heartbeat = Some(clock')
       /\ config'.last_scheduler_error = None]_vars

\* C6 witness: the cycle went through two pairs, both failed, and the
\* scheduler is at its interval sleep with a fresh heartbeat and no error.
C6_Witness ==
  /\ IsScheduler /\ pc = "interval_sleep"
  /\ Len(report) = 2
  /\ \A k \in 1..2 : report[k].result = "failed"
  /\ config.last_scheduler_heartbeat = Some(clock)
  /\ config.last_scheduler_error = None

(* ----------------------- properties: ladder.run ----------------------- *)

RungCauses == {"rung_buy", "rung_sell"}

FailedCall(e, phase) == e.ev = "price" /\ e.phase = phase /\ ~e.ok

\* C7: in ladder_sweep a failed rung quote does not abort the sweep: no
\* attempt ends because of a rung quote, and once the attempt is over the
\* rung of every failed quote has its point, with the metric of the failed
\* direction null.
C7_RungFailureTolerated ==
  /\ \A k \in 1..Len(report) : report[k].cause \notin RungCauses
  /\ (pc = "ro_finally" /\ pending = "none") =>
       \A j \in 1..Len(olog) :
         FailedCall(olog[j], "rung") =>
           \E q \in ladder_points :
             /\ q.run_id \in report[Len(report)].created
             /\ q.usd = olog[j].usd
             /\ olog[j].side = "BUY" => q.buy_bps = None
             /\ olog[j].side = "SELL" => q.sell_bps = None

\* C8: when a baseline oracle call fails, ladder.run ends there: the failed
\* call is the last oracle event of the run, the attempt is reported failed
\* with no run created, and from the failing step on no row is written to
\* ladder_runs or ladder_points until the next target is started.
C8_BaselineFailureWritesNothing ==
  [][\A j \in 1..Len(olog') :
       FailedCall(olog'[j], "baseline") =>
         /\ j = Len(olog')
         /\ pc' \notin InsideAttempt
         /\ lr' = LrIdle
         /\ report' # <<>>
         /\ report'[Len(report')].result = "failed"
         /\ report'[Len(report')].cause \in BaselineCauses
         /\ report'[Len(report')].created = {}
         /\ UNCHANGED <<ladder_runs, ladder_points, seq_run_id>>]_vars

\* C8 witness: the SELL baseline call failed after the BUY baseline call;
\* run_once has moved on, and the store is empty.
C8_Witness ==
  /\ pc = "ro_next"
  /\ Len(olog) = 2
  /\ olog[1].ok /\ FailedCall(olog[2], "baseline") /\ olog[2].side = "SELL"
  /\ ladder_runs = {} /\ ladder_points = {}

\* C9: within one ladder run a rate-limit wait separates every two
\* consecutive oracle calls.
C9_WaitBetweenOracleCalls ==
  \A j \in 1..(Len(olog) - 1) : olog[j].ev = "price" => olog[j + 1].ev = "sleep"

\* the oracle calls ladder_sweep has made so far
SweepCalls == SelectSeq(olog, LAMBDA e : e.ev = "price" /\ e.phase = "rung")

\* rows 1..n are those of ladder entries 1..n, in that order
RowsFollowLadder(n) ==
  /\ Len(lr.rows) = n
  /\ \A i \in 1..n : lr.rows[i].usd = lr.ladder[i]

\* calls 1..2n are BUY then SELL of ladder entries 1..n, in that order
CallsFollowLadder(n) ==
  \A i \in 1..n :
    /\ SweepCalls[2 * i - 1].side = "BUY" /\ SweepCalls[2 * i].side = "SELL"
    /\ SweepCalls[2 * i - 1].rung = i /\ SweepCalls[2 * i].rung = i
    /\ SweepCalls[2 * i - 1].usd = lr.ladder[i] /\ SweepCalls[2 * i].usd = lr.ladder[i]

\* C10: ladder_sweep, when it returns, returns one row per entry of
\* usd_ladder, in the order given (also when the ladder is not ascending or
\* repeats a size), having made exactly two oracle calls per entry, BUY then
\* SELL; while it runs, the entries before the current one are complete (row
\* appended, both calls made) and no call of a later entry has been made.
\* (A sweep ended by a failed quote returns nothing: see C7.)
C10_SweepFollowsLadder ==
  /\ pc = "save" =>
       /\ RowsFollowLadder(Len(lr.ladder))
       /\ Len(SweepCalls) = 2 * Len(lr.ladder)
       /\ CallsFollowLadder(Len(lr.ladder))
  /\ pc = "rung_buy" =>
       /\ RowsFollowLadder(lr.i - 1)
       /\ Len(SweepCalls) = 2 * (lr.i - 1)
       /\ CallsFollowLadder(lr.i - 1)
  /\ pc = "rung_sell" =>
       /\ RowsFollowLadder(lr.i - 1)
       /\ Len(SweepCalls) = 2 * (lr.i - 1) + 1
       /\ CallsFollowLadder(lr.i - 1)
       /\ SweepCalls[2 * lr.i - 1].side = "BUY"
       /\ SweepCalls[2 * lr.i - 1].usd = lr.ladder[lr.i]

\* C10 witness: the sweep of the ladder 2, 1, 2 has returned its three rows.
C10_Witness ==
  /\ pc = "save"
  /\ lr.ladder = <<2, 1, 2>>
  /\ Len(lr.rows) = 3
  /\ Len(SweepCalls) = 6

(* ======================= impact_bps on its own ======================== *)

\* what the variables a specification does not use hold throughout
Unused(names) ==
  /\ "config" \in names => config = CONFIG_FILE_ABSENT
  /\ "token_pairs" \in names => token_pairs = {}
  /\ "ladder_runs" \in names => ladder_runs = {}
  /\ "ladder_points" \in names => ladder_points = {}
  /\ "seq_run_id" \in names => seq_run_id = 0
  /\ "clock" \in names => clock = 1
  /\ "market" \in names => market = "dry"
  /\ "cmd" \in names => cmd = Command("none", None, FALSE, None, None)
  /\ "exit" \in names => exit = NotExited
  /\ "sched" \in names => sched = SchedIdle
  /\ "ro" \in names => ro = RoIdle
  /\ "lr" \in names => lr = LrIdle
  /\ "pending" \in names => pending = "none"
  /\ "olog" \in names => olog = <<>>
  /\ "report" \in names => report = <<>>
  /\ "cycles" \in names => cycles = 0
  /\ "faults" \in names => faults = MaxFaults
  /\ "cmds" \in names => cmds = MaxCmds
  /\ "call" \in names => call = NoCall

\* unit rates impact_bps may be handed: of either sign, equal, far apart,
\* and a last digit apart
UnitRates ==
  {Dec(-1, 1), Dec(0, 1), Dec(1, 8), Dec(19, 125), Dec(1, 2), Dec(1, 1),
   Dec(2, 1), Dec(2999, 1000), Dec(3, 1), Dec(3001, 1000)}

\* the call impact_bps(lr.unit_buy_baseline, lr.buy_parsed.unit_price_human)
ImpactInit ==
  /\ pc = "impact"
  /\ \E b \in UnitRates, a \in UnitRates :
       lr = [LrIdle EXCEPT !.unit_buy_baseline = b,
                           !.buy_parsed = [NoParsed EXCEPT !.unit_price_human = a]]
  /\ Unused({"config", "token_pairs", "ladder_runs", "ladder_points", "seq_run_id",
             "clock", "market", "cmd", "exit", "sched", "ro", "pending", "olog",
             "report", "cycles", "faults", "cmds", "call"})

ImpactBps ==
  /\ pc = "impact"
  /\ lr' = [lr EXCEPT !.buy_bps =
                         impact_bps(lr.unit_buy_baseline, lr.buy_parsed.unit_price_human)]
  /\ pc' = "impact_done"
  /\ UNCHANGED <<config, token_pairs, ladder_runs, ladder_points, seq_run_id, clock,
                 market, cmd, exit, sched, ro, pending, olog, report, cycles, faults,
                 cmds>>
  /\ UNCHANGED call

ImpactNext == ImpactBps

ImpactSpec == ImpactInit /\ [][ImpactNext]_vars

(* --------------------------------- C11 -------------------------------- *)

DLess(a, b) == a[1] * b[2] < b[1] * a[2]

\* C11: whenever both unit rates are positive, the impact impact_bps returns
\* is positive exactly when the at-size rate is below the baseline, negative
\* exactly when it is above, and 0 exactly when the two are equal.
C11_ImpactSignFollowsRates ==
  LET baseline == lr.unit_buy_baseline
      at_size  == lr.buy_parsed.unit_price_human
  IN  (pc = "impact_done" /\ DPos(baseline) /\ DPos(at_size)) =>
        /\ ~IsNone(lr.buy_bps)
        /\ Val(lr.buy_bps)[1] > 0 <=> DLess(at_size, baseline)
        /\ Val(lr.buy_bps)[1] < 0 <=> DLess(baseline, at_size)
        /\ Val(lr.buy_bps)[1] = 0 <=> at_size = baseline

(* ================= one ladder run on a market of each kind =============== *)

\* a pair whose assets have no decimals: small sizes truncate to zero units
CoarseRow == [PairRow(1) EXCEPT !.base_decimals = 0, !.quote_decimals = 0]

LadderChoices == {None, Some(<<>>), Some(<<2, 1, 2>>), Some(<<1, 40>>), Some(<<20>>)}

BaselineChoices == {None, Some(1), Some(20)}

\* run:once --pair 1 with the API key configured and no failure injected
LadderInit ==
  /\ \E l \in LadderChoices, b \in BaselineChoices :
       config = ReadableConfig(TRUE, <<>>, [FreshKeys EXCEPT !.ladder_values = l,
                                                             !.ladder_baseline_usd = b])
  /\ token_pairs \in {{PairRow(1)}, {CoarseRow}}
  /\ market \in Markets
  /\ cmd = Command("run:once", Some(1), FALSE, None, None)
  /\ pc = "main"
  /\ Unused({"ladder_runs", "ladder_points", "seq_run_id", "clock", "exit", "sched",
             "ro", "lr", "pending", "olog", "report", "cycles", "faults", "cmds",
             "call"})

LadderNext ==
  \/ Main
  \/ RoBegin
  \/ RoOverride
  \/ LrStart
  \/ BaselineBuy
  \/ BaselineSell
  \/ RungBuy
  \/ RungSell
  \/ Save
  \/ RoFinally
  \/ RoReturn

LadderSpec == LadderInit /\ [][LadderNext]_vars

(* ------------------------------ C12, C13 ------------------------------ *)

\* the unit rate the oracle's answer gives at size usd, per direction
UnitBuyAt(usd) ==
  parse_0x_price_response(
    OracleResponse(market, lr.pair.quote_address, lr.pair.base_address,
                   sell_quote_units(usd, lr.quote_usd, lr.pair.quote_decimals).n),
    lr.pair.quote_decimals, lr.pair.base_decimals)

UnitSellAt(usd) ==
  parse_0x_price_response(
    OracleResponse(market, lr.pair.base_address, lr.pair.quote_address,
                   sell_base_units(usd, lr.base_usd, lr.pair.base_decimals).n),
    lr.pair.base_decimals, lr.pair.quote_decimals)

BuyAbsent(usd) ==
  \/ ~DPos(lr.unit_buy_baseline)
  \/ ~DPos(UnitBuyAt(usd).unit_price_human)
  \/ UnitBuyAt(usd).sell_amount = 0
  \/ UnitBuyAt(usd).buy_amount = 0

SellAbsent(usd) ==
  \/ ~DPos(lr.unit_sell_baseline)
  \/ ~DPos(UnitSellAt(usd).unit_price_human)
  \/ UnitSellAt(usd).sell_amount = 0
  \/ UnitSellAt(usd).buy_amount = 0

\* save_ladder_result has stored the result of the ladder.run that just returned
SavedStep == pc = "save" /\ pc' = "ro_finally" /\ seq_run_id' # seq_run_id

\* C12: for every rung and direction whose baseline or at-size unit rate is
\* not positive (an answer with a zero sell or buy amount included), the
\* impact is None in the sweep's row, None in the result ladder.run returns,
\* NULL in ladder_points and None in what get_ladder_points reads back.
C12_AbsentImpactStaysAbsent ==
  [][SavedStep =>
       LET rid == seq_run_id'
           res == run_result(lr)
           got == get_ladder_points(ladder_points', rid)
       IN  \A k \in 1..Len(lr.rows) :
             LET usd == lr.rows[k].usd
             IN  /\ BuyAbsent(usd) =>
                      /\ lr.rows[k].buy_bps = None
                      /\ res.rows[k].buy_bps = None
                      /\ \A q \in ladder_points' :
                           (q.run_id = rid /\ q.usd = usd) => q.buy_bps = None
                      /\ \A j \in 1..Len(got) : got[j].usd = usd => got[j].buy_bps = None
                 /\ SellAbsent(usd) =>
                      /\ lr.rows[k].sell_bps = None
                      /\ res.rows[k].sell_bps = None
                      /\ \A q \in ladder_points' :
                           (q.run_id = rid /\ q.usd = usd) => q.sell_bps = None
                      /\ \A j \in 1..Len(got) : got[j].usd = usd => got[j].sell_bps = None
  ]_vars

\* a saved run whose BUY baseline is positive, with a rung that has an impact
\* and a rung that has none, the latter read back
C12_Witness ==
  \E r \in ladder_runs :
    /\ DPos(r.unit_buy_baseline)
    /\ \E p \in ladder_points, q \in ladder_points :
         /\ p.run_id = r.id /\ q.run_id = r.id
         /\ p.buy_bps = None /\ q.buy_bps # None
    /\ \E j \in 1..Len(get_ladder_points(ladder_points, r.id)) :
         get_ladder_points(ladder_points, r.id)[j].buy_bps = None

\* every answer of the run, baselines and rungs, has the positive unit rate of
\* its direction's baseline
SamePositiveRates ==
  /\ DPos(lr.unit_buy_baseline) /\ DPos(lr.unit_sell_baseline)
  /\ \A k \in 1..Len(lr.ladder) :
       /\ UnitBuyAt(lr.ladder[k]).unit_price_human = lr.unit_buy_baseline
       /\ UnitSellAt(lr.ladder[k]).unit_price_human = lr.unit_sell_baseline

\* C13: when the oracle answers every request of a run with the same positive
\* unit rate per direction, the sweep's buy_bps and sell_bps are 0 at every
\* rung, whatever the baseline size and the ladder.
C13_FlatPriceHasNoImpact ==
  (pc = "save" /\ SamePositiveRates) =>
     /\ Len(lr.rows) = Len(lr.ladder)
     /\ \A k \in 1..Len(lr.rows) :
          /\ lr.rows[k].buy_bps = Some(DInt(0))
          /\ lr.rows[k].sell_bps = Some(DInt(0))

C13_Witness ==
  /\ pc = "save" /\ SamePositiveRates /\ market = "flat"
  /\ lr.ladder = <<2, 1, 2>> /\ lr.baseline_usd = 20
  /\ Len(lr.rows) = 3

(* ====================== the run / point store alone ==================== *)

\* the metrics of a point as a client may supply them: all present, or none
MetricsFull ==
  [buy_bps |-> Some(Dec(25, 2)), sell_bps |-> Some(DInt(-3)),
   buy_liquidity_available |-> Some(TRUE), sell_liquidity_available |-> Some(FALSE),
   buy_top_source |-> Some("Uniswap_V3"),
   buy_route_concentration_percent |-> Some(DInt(100)),
   sell_top_source |-> Some("Aerodrome"),
   sell_route_concentration_percent |-> Some(DInt(60))]

MetricsNone ==
  [buy_bps |-> None, sell_bps |-> None,
   buy_liquidity_available |-> None, sell_liquidity_available |-> None,
   buy_top_source |-> None, buy_route_concentration_percent |-> None,
   sell_top_source |-> None, sell_route_concentration_percent |-> None]

PointRow(usd, m) ==
  [usd |-> usd, buy_bps |-> m.buy_bps, sell_bps |-> m.sell_bps,
   buy_liquidity_available |-> m.buy_liquidity_available,
   sell_liquidity_available |-> m.sell_liquidity_available,
   buy_top_source |-> m.buy_top_source,
   buy_route_concentration_percent |-> m.buy_route_concentration_percent,
   sell_top_source |-> m.sell_top_source,
   sell_route_concentration_percent |-> m.sell_route_concentration_percent]

PointUsd == {1, 2}

PointRowChoices == {PointRow(u, m) : u \in PointUsd, m \in {MetricsFull, MetricsNone}}

\* row lists for bulk_insert_ladder_points: empty, descending, a size twice
BulkChoices ==
  {<<>>,
   <<PointRow(2, MetricsFull), PointRow(1, MetricsNone)>>,
   <<PointRow(2, MetricsNone), PointRow(2, MetricsFull)>>,
   <<PointRow(1, MetricsFull), PointRow(2, MetricsFull), PointRow(1, MetricsNone)>>}

\* usd_ladder arguments: none, empty, not ascending with a size twice,
\* ascending, descending
StoreLadders == {None, Some(<<>>), Some(<<5, 1, 5>>), Some(<<1, 5>>), Some(<<5, 1>>)}

\* the keyword arguments of a create_ladder_run for the pair of row
RunArgs(row, usd_ladder) ==
  [base_address |-> row.base_address,
   pair_address |-> row.pair_address,
   quote_address |-> row.quote_address,
   baseline_usd |-> DEFAULT_BASELINE_USD,
   quote_usd |-> QuoteUsdPrice,
   base_usd |-> DInt(1),
   unit_buy_baseline |-> DInt(1),
   unit_sell_baseline |-> DInt(1),
   usd_ladder |-> usd_ladder]

\* a result dict as ladder.run returns it, for the listed pair
StoreResult(ladder, rows) ==
  [pair |-> PairRow(1), usd_ladder |-> ladder, baseline_usd |-> DEFAULT_BASELINE_USD,
   quote_usd |-> QuoteUsdPrice, base_usd |-> DInt(1),
   unit_buy_baseline |-> DInt(1), unit_sell_baseline |-> DInt(1),
   rows |-> rows]

StoreInit ==
  /\ pc = "store"
  /\ token_pairs = {PairRow(1)}
  /\ ladder_runs = {}
  /\ ladder_points = {}
  /\ seq_run_id = 0
  /\ call = NoCall
  /\ Unused({"config", "clock", "market", "cmd", "exit", "sched", "ro", "lr",
             "pending", "olog", "report", "cycles", "faults", "cmds"})

StoreFrame ==
  UNCHANGED <<config, token_pairs, clock, market, cmd, pc, exit, sched, ro, lr,
              pending, olog, report, cycles, faults, cmds>>

\* create_ladder_run for a listed pair, or for one token_pairs does not
\* hold, with a usd_ladder of ladders
CreateRun(ladders) ==
  /\ seq_run_id < MaxRuns
  /\ \E row \in {PairRow(1), PairRow(2)}, l \in ladders :
       LET rid == next_run_id(ladder_runs, seq_run_id)
       IN  IF pair_exists(token_pairs, RunArgs(row, l))
             THEN /\ ladder_runs' = create_ladder_run(ladder_runs, rid, clock, RunArgs(row, l))
                  /\ seq_run_id' = rid
                  /\ call' = [NoCall EXCEPT !.op = "create_ladder_run", !.run_id = rid,
                                            !.usd_ladder = l]
             ELSE /\ call' = [NoCall EXCEPT !.op = "create_ladder_run", !.usd_ladder = l,
                                            !.raised = TRUE]
                  /\ UNCHANGED <<ladder_runs, seq_run_id>>
  /\ UNCHANGED ladder_points
  /\ StoreFrame

StoreCreate == CreateRun({Some(<<5, 1, 5>>)})

StoreInsert ==
  /\ \E rid \in 1..MaxRuns, row \in PointRowChoices :
       /\ ladder_points' = insert_ladder_point(ladder_points, ladder_runs, rid, row)
       /\ call' = [NoCall EXCEPT !.op = "insert_ladder_point", !.run_id = rid,
                                 !.rows = <<row>>,
                                 !.raised = insert_ladder_point_raises(ladder_runs, rid)]
  /\ UNCHANGED <<ladder_runs, seq_run_id>>
  /\ StoreFrame

StoreBulk ==
  /\ \E rid \in 1..MaxRuns, rows \in BulkChoices :
       /\ ladder_points' = bulk_insert_ladder_points(ladder_points, ladder_runs, rid, rows)
       /\ call' = [NoCall EXCEPT !.op = "bulk_insert_ladder_points", !.run_id = rid,
                                 !.rows = rows,
                                 !.raised = bulk_insert_ladder_points_raises(ladder_runs,
                                                                             rid, rows)]
  /\ UNCHANGED <<ladder_runs, seq_run_id>>
  /\ StoreFrame

\* rows committed one by one: the first is in when the call stops
first_row_committed(points, runs, run_id, rows) ==
  IF rows = <<>> THEN points ELSE upsert_point(points, run_id, Head(rows))

\* what ladder_points holds when save_ladder_result stops before
\* bulk_insert_ladder_points commits
points_uncommitted(points, runs, run_id, rows) == points

\* save_ladder_result: create_ladder_run commits, then
\* bulk_insert_ladder_points commits, unless the call stops in between
StoreSave ==
  /\ seq_run_id < MaxRuns
  /\ \E rows \in BulkChoices, stops \in BOOLEAN :
       LET rid == next_run_id(ladder_runs, seq_run_id)
           l == <<5, 1, 5>>
           res == StoreResult(l, rows)
       IN  /\ ladder_runs' = create_ladder_run(ladder_runs, rid, clock, save_run_args(res))
           /\ seq_run_id' = rid
           /\ ladder_points' =
                IF stops
                  THEN points_uncommitted(ladder_points, ladder_runs', rid,
                                          point_rows(res.rows))
                  ELSE bulk_insert_ladder_points(ladder_points, ladder_runs', rid,
                                                 point_rows(res.rows))
           /\ call' = [NoCall EXCEPT !.op = "save_ladder_result", !.run_id = rid,
                                     !.rows = rows, !.usd_ladder = Some(l),
                                     !.raised = stops]
  /\ StoreFrame

StoreDelete ==
  /\ \E rid \in 1..MaxRuns :
       /\ ladder_runs' = delete_ladder_run_header(ladder_runs, rid)
       /\ ladder_points' = delete_ladder_run_points(ladder_points, rid)
       /\ call' = [NoCall EXCEPT !.op = "delete_ladder_run", !.run_id = rid]
  /\ UNCHANGED seq_run_id
  /\ StoreFrame

StoreNext ==
  \/ StoreCreate
  \/ StoreInsert
  \/ StoreBulk
  \/ StoreSave
  \/ StoreDelete

StoreSpec == StoreInit /\ [][StoreNext]_vars

(* run headers alone: create_ladder_run with every kind of usd_ladder,
   get_ladder_run and delete_ladder_run *)

HeaderInit ==
  /\ pc = "headers"
  /\ token_pairs = {PairRow(1)}
  /\ ladder_runs = {}
  /\ ladder_points = {}
  /\ seq_run_id = 0
  /\ call = NoCall
  /\ Unused({"config", "clock", "market", "cmd", "exit", "sched", "ro", "lr",
             "pending", "olog", "report", "cycles", "faults", "cmds"})

HeaderCreate == CreateRun(StoreLadders)

\* get_ladder_run: a read, the store stays as it is
HeaderGet ==
  /\ \E rid \in 1..MaxRuns :
       call' = [NoCall EXCEPT !.op = "get_ladder_run", !.run_id = rid,
                              !.usd_ladder =
                                LET got == get_ladder_run(ladder_runs, rid)
                                IN  IF IsNone(got) THEN None ELSE Val(got).usd_ladder]
  /\ UNCHANGED <<ladder_runs, ladder_points, seq_run_id>>
  /\ StoreFrame

HeaderNext ==
  \/ HeaderCreate
  \/ HeaderGet
  \/ StoreDelete

HeaderSpec == HeaderInit /\ [][HeaderNext]_vars

(* ------------------------------ C14 .. C19 ---------------------------- *)

\* the sizes a run has points for
UsdOf(points, run_id) == {p.usd : p \in {q \in points : q.run_id = run_id}}

\* a point as get_ladder_points returns it when row was written last
ReadBack(run_id, row) ==
  [run_id |-> run_id, usd |-> row.usd, buy_bps |-> row.buy_bps,
   sell_bps |-> row.sell_bps,
   buy_liquidity_available |-> row.buy_liquidity_available,
   sell_liquidity_available |-> row.sell_liquidity_available,
   buy_top_source |-> row.buy_top_source,
   buy_route_concentration_percent |-> row.buy_route_concentration_percent,
   sell_top_source |-> row.sell_top_source,
   sell_route_concentration_percent |-> row.sell_route_concentration_percent]

\* the last row of rows for size usd
LastRowFor(rows, usd) ==
  rows[CHOOSE k \in 1..Len(rows) :
         rows[k].usd = usd /\ \A j \in (k + 1)..Len(rows) : rows[j].usd # usd]

\* a step of insert_ladder_point or bulk_insert_ladder_points that returned
PointWriteStep ==
  /\ call'.op \in {"insert_ladder_point", "bulk_insert_ladder_points"}
  /\ ~call'.raised

\* C14: the store never holds two points for one (run_id, usd); a write of a
\* size again replaces every metric with the values written last; and after
\* a write get_ladder_points(run_id) has one entry per distinct size supplied
\* for the run so far.
C14_OnePointPerSize ==
  [][/\ \A p \in ladder_points', q \in ladder_points' :
          (p.run_id = q.run_id /\ p.usd = q.usd) => p = q
     /\ PointWriteStep =>
          LET rid == call'.run_id
              rows == call'.rows
              got == get_ladder_points(ladder_points', rid)
              supplied == {rows[k].usd : k \in 1..Len(rows)}
          IN  /\ Len(got) = Cardinality(UsdOf(ladder_points, rid) \cup supplied)
              /\ \A u \in supplied :
                   \E j \in 1..Len(got) : got[j] = ReadBack(rid, LastRowFor(rows, u))
  ]_vars

\* a bulk write that supplied size 2 twice, over a run that held both sizes
C14_Witness ==
  /\ call.op = "bulk_insert_ladder_points" /\ ~call.raised
  /\ call.rows = <<PointRow(2, MetricsNone), PointRow(2, MetricsFull)>>
  /\ Len(get_ladder_points(ladder_points, call.run_id)) = 2
  /\ \E p \in ladder_points :
       p.run_id = call.run_id /\ p.usd = 2 /\ p.buy_top_source = Some("Uniswap_V3")

\* C15: delete_ladder_run(id) on an existing run removes its header and all
\* its points, and leaves the headers and points of the other runs as they
\* were.
C15_DeleteTakesOneRun ==
  [][(call'.op = "delete_ladder_run" /\ run_exists(ladder_runs, call'.run_id)) =>
       LET rid == call'.run_id
       IN  /\ ~run_exists(ladder_runs', rid)
           /\ \A p \in ladder_points' : p.run_id # rid
           /\ ladder_runs' = {r \in ladder_runs : r.id # rid}
           /\ ladder_points' = {p \in ladder_points : p.run_id # rid}
  ]_vars

\* a run was deleted while another run keeps its header and points
C15_Witness ==
  /\ call.op = "delete_ladder_run"
  /\ seq_run_id = MaxRuns
  /\ ~run_exists(ladder_runs, call.run_id)
  /\ \E r \in ladder_runs : Cardinality(UsdOf(ladder_points, r.id)) = 2

\* a step of a point writer that had rows to write
PointWriteAttempt ==
  /\ call'.op \in {"insert_ladder_point", "bulk_insert_ladder_points"}
  /\ call'.rows # <<>>

\* C16: every stored point belongs to an existing run, whatever sequence of
\* create_ladder_run, insert_ladder_point, bulk_insert_ladder_points,
\* save_ladder_result and delete_ladder_run has run; a point write for a
\* run_id without a run is rejected and stores nothing.
C16_PointsBelongToRuns ==
  [][/\ \A p \in ladder_points' : \E r \in ladder_runs' : r.id = p.run_id
     /\ (PointWriteAttempt /\ \A r \in ladder_runs : r.id # call'.run_id) =>
          /\ call'.raised
          /\ ladder_points' = ladder_points
  ]_vars

\* a write for a deleted run was rejected while another run holds points
C16_Witness ==
  /\ call.op = "bulk_insert_ladder_points" /\ call.raised
  /\ seq_run_id >= call.run_id
  /\ ladder_points # {}

StrictlyAscending(got) == \A j \in 1..(Len(got) - 1) : got[j].usd < got[j + 1].usd

\* C17: get_ladder_points(run_id) lists the run's points by usd, strictly
\* ascending, in whatever order they were inserted or overwritten.
C17_PointsReadAscending ==
  \A rid \in 1..MaxRuns :
    LET got == get_ladder_points(ladder_points, rid)
    IN  /\ StrictlyAscending(got)
        /\ {got[j].usd : j \in 1..Len(got)} = UsdOf(ladder_points, rid)
        /\ Len(got) = Cardinality(UsdOf(ladder_points, rid))

\* size 1 was inserted last, into a run that held size 2
C17_Witness ==
  /\ call.op = "insert_ladder_point" /\ ~call.raised
  /\ call.rows[1].usd = 1
  /\ Len(get_ladder_points(ladder_points, call.run_id)) = 2
  /\ get_ladder_points(ladder_points, call.run_id)[1].usd = 1

\* C18: create_ladder_run with usd_ladder = L, then get_ladder_run on the id
\* it returned, gives usd_ladder = L: the same sizes, order and repeats,
\* for the empty list too.
C18_LadderRoundTrip ==
  [][(call'.op = "create_ladder_run" /\ ~call'.raised /\ ~IsNone(call'.usd_ladder)) =>
       /\ ~IsNone(get_ladder_run(ladder_runs', call'.run_id))
       /\ Val(get_ladder_run(ladder_runs', call'.run_id)).usd_ladder = call'.usd_ladder
  ]_vars

\* the repeating ladder read back as written, beside a run with the empty one
C18_Witness ==
  /\ call.op = "create_ladder_run" /\ ~call.raised
  /\ call.usd_ladder = Some(<<5, 1, 5>>)
  /\ \E r \in ladder_runs : r.id # call.run_id /\ r.usd_ladder_json = Some(json_dumps(<<>>))
  /\ Val(get_ladder_run(ladder_runs, call.run_id)).usd_ladder = Some(<<5, 1, 5>>)

\* C19: when save_ladder_result stops between the commit of create_ladder_run
\* and the commit of bulk_insert_ladder_points, the store holds the run's
\* header with no point; get_ladder_run returns the header and
\* get_ladder_points returns the empty list.
C19_HeaderWithoutPoints ==
  [][(call'.op = "save_ladder_result" /\ call'.raised) =>
       /\ run_exists(ladder_runs', call'.run_id)
       /\ UsdOf(ladder_points', call'.run_id) = {}
       /\ ~IsNone(get_ladder_run(ladder_runs', call'.run_id))
       /\ Val(get_ladder_run(ladder_runs', call'.run_id)).id = call'.run_id
       /\ get_ladder_points(ladder_points', call'.run_id) = <<>>
  ]_vars

\* the call stopped with rows still to write, another run holding points
C19_Witness ==
  /\ call.op = "save_ladder_result" /\ call.raised /\ call.rows # <<>>
  /\ run_exists(ladder_runs, call.run_id)
  /\ ladder_points # {}
  /\ get_ladder_points(ladder_points, call.run_id) = <<>>

(* --------------------------------- C20 -------------------------------- *)

\* the positions between run_once's first statement and its return
InsideRunOnce == InsideAttempt \cup {"ro_next", "ro_finally"}

\* C20: run_once never writes pair_addresses: at every point of a run_once,
\* config.json holds the pair_addresses it held when run_once was called,
\* the target being handed to the sweep as a parameter.
C20_PairAddressesUntouched ==
  (pc \in InsideRunOnce /\ load_cfg_ok(config)) =>
     config.pair_addresses = ro.cfg.pair_addresses

(* ================= run_once over the configured targets ================ *)

\* the optional keys as earlier commands left them, the schedule off
OnceKeys ==
  [ladder_values |-> Some(<<2, 1>>), ladder_baseline_usd |-> Some(1),
   schedule_enabled |-> Some(FALSE), schedule_interval_secs |-> Some(900),
   last_scheduler_heartbeat |-> None, last_scheduler_error |-> None]

\* pair_addresses: two listed pairs, or a pair no table holds before a listed one
OnceTargets == {<<1, 2>>, <<MaxPairs + 2, 1>>}

\* run:once [--ladder 1] [--baseline 2]
OnceCommands ==
  {Command("run:once", None, FALSE, l, b) : l \in {None, Some(<<1>>)}, b \in {None, Some(2)}}

OnceInit ==
  /\ config \in {ReadableConfig(TRUE, pa, OnceKeys) : pa \in OnceTargets}
  /\ token_pairs = {PairRow(1), PairRow(2)}
  /\ market = "steep"
  /\ cmd \in OnceCommands
  /\ pc = "main"
  /\ faults = 0
  /\ Unused({"ladder_runs", "ladder_points", "seq_run_id", "clock", "exit", "sched",
             "ro", "lr", "pending", "olog", "report", "cycles", "cmds", "call"})

OnceSpec == OnceInit /\ [][LadderNext]_vars

(* --------------------------------- C21 -------------------------------- *)

\* what can fail for one target: the oracle, the price lookup, the pair
\* lookup (an error of the database, or no row for the address), the store
TargetCauses ==
  {"baseline_buy", "baseline_sell", "rung_buy", "rung_sell", "price", "db", "no_pair",
   "save_run", "save_points"}

\* C21: in a run_once over several targets a failure for one target is
\* reported for that target as a failure and does not leave run_once: the
\* process never ends because of it, and when run_once is done every target
\* has been attempted, in order.
C21_TargetFailureContained ==
  /\ pc = "exited" => exit.cause \notin TargetCauses
  /\ \A k \in 1..Len(report) :
       report[k].cause \in TargetCauses => report[k].result = "failed"
  /\ RunOnceDone =>
       /\ Len(report) = Len(ro.targets)
       /\ \A k \in 1..Len(report) : report[k].pair = ro.targets[k]

(* --------------------------------- C25 -------------------------------- *)

\* C25: after a run:once with --ladder or --baseline has returned,
\* config.json holds the ladder_values and the ladder_baseline_usd it held
\* before the invocation.
C25_OverridesLastOneInvocation ==
  (pc = "exited" /\ exit.kind = "returned") =>
     /\ config.ladder_values = OnceKeys.ladder_values
     /\ config.ladder_baseline_usd = OnceKeys.ladder_baseline_usd

(* --------------------------------- C29 -------------------------------- *)

\* a step that makes an oracle call
OracleCallStep == olog' # olog /\ olog' # <<>>

\* the run of target k of this run_once is in the store, with a point for
\* every size of its ladder
RunStored(k) ==
  \E r \in ladder_runs :
    /\ report[k].created = {r.id}
    /\ r.pair_address = ro.targets[k]
    /\ ~IsNone(get_ladder_run(ladder_runs, r.id))
    /\ LET ladder == Val(Val(get_ladder_run(ladder_runs, r.id)).usd_ladder)
       IN  UsdOf(ladder_points, r.id) = {ladder[j] : j \in 1..Len(ladder)}

\* C29: within one run_once every oracle call is made for the current
\* target's pair, after every earlier target has been finished and reported
\* (its run, if it was saved, being in the store with its points); the
\* calls of one target are the BUY baseline, the SELL baseline, then the
\* rungs.
C29_TargetsOneAfterAnother ==
  [][OracleCallStep =>
       /\ lr.pair.pair_address = ro.targets[ro.idx]
       /\ Len(report) = ro.idx - 1
       /\ \A k \in 1..Len(report) :
            /\ report[k].pair = ro.targets[k]
            /\ report[k].result = "saved" => RunStored(k)
       /\ \A j \in 1..Len(olog') :
            olog'[j].ev = "price" =>
              /\ (olog'[j].phase = "baseline" /\ olog'[j].side = "BUY") <=> j = 1
              /\ (olog'[j].phase = "baseline" /\ olog'[j].side = "SELL") <=> j = 2
  ]_vars

\* the first oracle call of the second target has been made, the run of the
\* first being stored
C29_Witness ==
  /\ pc = "base_sell" /\ ro.idx = 2 /\ Len(olog) = 1
  /\ Len(report) = 1 /\ report[1].result = "saved" /\ RunStored(1)
  /\ lr.pair.pair_address = ro.targets[2] /\ ro.targets[1] # ro.targets[2]

(* --------------------------------- C22 -------------------------------- *)

\* C22: last_scheduler_heartbeat changes in config.json only by the step
\* that ends a scheduler cycle in which run_once attempted every target; no
\* other step of the scheduler and no other command changes it.
C22_HeartbeatOnlyAfterFullCycle ==
  [][(/\ load_cfg_ok(config) /\ load_cfg_ok(config')
      /\ config'.last_scheduler_heartbeat # config.last_scheduler_heartbeat) =>
       /\ IsScheduler /\ pc = "ro_return" /\ pc' = "interval_sleep"
       /\ Len(report) = Len(ro.targets)
       /\ \A k \in 1..Len(report) : report[k].result \in {"saved", "failed"}
  ]_vars

(* ========== the scheduler with commands of another process ============ *)

\* cmd_schedule_disable: load_cfg, schedule_enabled = False, save_cfg
cmd_schedule_disable(file) == save_cfg([file EXCEPT !.schedule_enabled = Some(FALSE)])

\* cmd_schedule_set_interval: load_cfg, schedule_interval_secs = int(seconds), save_cfg
cmd_schedule_set_interval(file, seconds) ==
  save_cfg([file EXCEPT !.schedule_interval_secs = Some(seconds)])

\* --seconds is any int
IntervalChoices == {-1, 0, 2}

\* an enabled schedule over the one listed pair, its interval valid
ConcurrentInit ==
  /\ config = ReadableConfig(TRUE, <<>>,
                [ladder_values |-> Some(<<1>>), ladder_baseline_usd |-> Some(1),
                 schedule_enabled |-> Some(TRUE), schedule_interval_secs |-> Some(1),
                 last_scheduler_heartbeat |-> Some(0), last_scheduler_error |-> None])
  /\ token_pairs = {PairRow(1)}
  /\ market = "steep"
  /\ cmd = Command("schedule:run", None, FALSE, None, None)
  /\ pc = "main"
  /\ cmds = 0
  /\ Unused({"ladder_runs", "ladder_points", "seq_run_id", "clock", "exit", "sched",
             "ro", "lr", "pending", "olog", "report", "cycles", "faults", "call"})

\* the positions of scheduler_loop and of what it calls
LoopRunning == pc \notin {"main", "exited"}

\* another process runs "controller.py schedule:disable" at any moment
OtherDisable ==
  /\ LoopRunning
  /\ cmds < MaxCmds
  /\ load_cfg_ok(config)
  /\ config' = cmd_schedule_disable(config)
  /\ cmds' = cmds + 1
  /\ call' = [NoCall EXCEPT !.op = "schedule:disable"]
  /\ UNCHANGED <<token_pairs, ladder_runs, ladder_points, seq_run_id, clock, market,
                 cmd, pc, exit, sched, ro, lr, pending, olog, report, cycles, faults>>

\* another process runs "controller.py schedule:set-interval --seconds N"
OtherSetInterval ==
  /\ LoopRunning
  /\ cmds < MaxCmds
  /\ load_cfg_ok(config)
  /\ \E seconds \in IntervalChoices : config' = cmd_schedule_set_interval(config, seconds)
  /\ cmds' = cmds + 1
  /\ call' = [NoCall EXCEPT !.op = "schedule:set-interval"]
  /\ UNCHANGED <<token_pairs, ladder_runs, ladder_points, seq_run_id, clock, market,
                 cmd, pc, exit, sched, ro, lr, pending, olog, report, cycles, faults>>

ConcurrentNext ==
  \/ Main
  \/ SchedLoadCfg
  \/ SchedIdleSleep
  \/ SchedTargets
  \/ SchedHeartbeat
  \/ SchedIntervalSleep
  \/ RoBegin
  \/ RoOverride
  \/ RoReturn
  \/ RoFinally
  \/ LrStart
  \/ BaselineBuy
  \/ BaselineSell
  \/ RungBuy
  \/ RungSell
  \/ Save
  \/ OtherDisable
  \/ OtherSetInterval

ConcurrentSpec == ConcurrentInit /\ [][ConcurrentNext]_vars

(* ------------------------------ C23, C24 ------------------------------ *)

\* C23: schedule_interval_secs in config.json is always an integer >= 1,
\* whatever schedule:set-interval was run with, and the interval the
\* scheduler is about to sleep is >= 1.
C23_IntervalAtLeastOne ==
  /\ (load_cfg_ok(config) /\ ~IsNone(config.schedule_interval_secs)) =>
       Val(config.schedule_interval_secs) >= 1
  /\ pc = "interval_sleep" => sched.interval >= 1

\* the command another process ran last is schedule:disable
DisabledLast == call.op = "schedule:disable"

\* C24: once schedule:disable has run, at whatever moment of the loop, then
\* from the end of the cycle then under way schedule_enabled is false in
\* config.json, and the loop's next pass goes to the idle sleep, not to a
\* sweep cycle.
C24_DisableTakesEffect ==
  /\ []((DisabledLast /\ pc \in {"interval_sleep", "sched_top", "idle_sleep"}) =>
          config.schedule_enabled = Some(FALSE))
  /\ [][(DisabledLast /\ pc = "sched_top") => pc' \in {"sched_top", "idle_sleep"}]_vars

(* ============== run headers listed: list_ladder_runs ================== *)

ListInit ==
  /\ pc = "list"
  /\ token_pairs = {PairRow(1)}
  /\ ladder_runs = {}
  /\ ladder_points = {}
  /\ seq_run_id = 0
  /\ clock = 0
  /\ call = NoCall
  /\ Unused({"config", "market", "cmd", "exit", "sched", "ro", "lr",
             "pending", "olog", "report", "cycles", "faults", "cmds"})

\* a second passes: strftime('%s','now') is one more for the runs to come
ListTick ==
  /\ clock < MaxRuns
  /\ clock' = clock + 1
  /\ UNCHANGED <<config, token_pairs, ladder_runs, ladder_points, seq_run_id, market,
                 cmd, pc, exit, sched, ro, lr, pending, olog, report, cycles, faults,
                 cmds, call>>

\* a run without points, started at the present second
ListCreate == CreateRun({None})

\* points for a run: one bulk_insert_ladder_points
ListBulk ==
  /\ \E rid \in 1..MaxRuns :
       LET rows == <<PointRow(1, MetricsFull)>>
       IN  /\ ladder_points' = bulk_insert_ladder_points(ladder_points, ladder_runs, rid, rows)
           /\ call' = [NoCall EXCEPT !.op = "bulk_insert_ladder_points", !.run_id = rid,
                                     !.rows = rows,
                                     !.raised = bulk_insert_ladder_points_raises(
                                                  ladder_runs, rid, rows)]
  /\ UNCHANGED <<ladder_runs, seq_run_id>>
  /\ StoreFrame

\* runs:list --limit N and the menu's 'List recent runs' take any int and
\* pass offset 0; list_ladder_runs takes any two ints
ListRuns ==
  /\ \E limit \in {-1, 0, 1, 2}, offset \in {0, 1} :
       call' = [NoCall EXCEPT !.op = "list_ladder_runs", !.args = <<limit, offset>>,
                              !.returned = list_ladder_runs(ladder_runs, limit, offset)]
  /\ UNCHANGED <<ladder_runs, ladder_points, seq_run_id>>
  /\ StoreFrame

ListNext ==
  \/ ListTick
  \/ ListCreate
  \/ ListBulk
  \/ StoreDelete
  \/ ListRuns

ListSpec == ListInit /\ [][ListNext]_vars

(* -------------------------------- C26 --------------------------------- *)

\* the runs that sort before run r
RunsBefore(r) == {o \in ladder_runs : ordered_before(o, r)}

\* C26: what list_ladder_runs(limit, offset) returned has at most limit
\* headers, newest started_at first and among equal started_at the higher
\* id first, and holds exactly the runs that have at least offset and
\* fewer than offset + limit runs before them, whether or not they have
\* points.
C26_ListNewestFirstWithinLimit ==
  call.op = "list_ladder_runs" =>
    LET out == call.returned
        limit == call.args[1]
        offset == call.args[2]
    IN  /\ Len(out) <= limit
        /\ \A i, j \in 1..Len(out) : i < j => ordered_before(out[i], out[j])
        /\ \A r \in ladder_runs :
             (\E k \in 1..Len(out) : out[k].id = r.id) <=>
               /\ Cardinality(RunsBefore(r)) >= offset
               /\ Cardinality(RunsBefore(r)) < offset + limit

(* -------------------------------- C27 --------------------------------- *)

\* a create_ladder_run that returned an id
RunCreated == call.op = "create_ladder_run" /\ ~call.raised

\* C27: whatever creates and deletes came before, the id a
\* create_ladder_run returns is greater than every id returned before it,
\* the ids of deleted runs included, and so is no id ladder_runs holds or
\* held.
C27_RunIdsOnlyGrow ==
  [][(RunCreated' /\ ladder_runs' # ladder_runs) =>
       /\ call'.run_id > seq_run_id
       /\ \A r \in ladder_runs : call'.run_id > r.id
       /\ seq_run_id' = call'.run_id
  ]_vars

\* run 2 was created when run 1 had been deleted
C27_Witness ==
  /\ RunCreated
  /\ call.run_id = 2
  /\ ~run_exists(ladder_runs, 1)
  /\ run_exists(ladder_runs, 2)

(* ================= compute_baselines on its own ======================= *)

\* what get_token_usd may answer for the quote asset: whole prices and
\* prices with decimals
QuoteUsdChoices ==
  {DInt(q) : q \in 1..6} \cup {Dec(15, 10), Dec(25, 100), Dec(6667, 10000)}

\* the arguments of compute_baselines: the pair's addresses and decimals,
\* quote_usd, baseline_usd; the oracle's market
BaselineInit ==
  /\ pc = "baselines"
  /\ market \in Markets
  /\ \E quote_usd \in QuoteUsdChoices, baseline_usd \in 1..DEFAULT_BASELINE_USD :
       lr = [LrIdle EXCEPT !.pair = PairRow(1), !.quote_usd = quote_usd,
                           !.baseline_usd = baseline_usd]
  /\ call = NoCall
  /\ Unused({"config", "token_pairs", "ladder_runs", "ladder_points", "seq_run_id",
             "clock", "cmd", "exit", "sched", "ro", "pending", "olog", "report",
             "cycles", "faults", "cmds"})

\* the keyword arguments of one get_price
PriceRequest(sell_token, buy_token, sell_amount) ==
  [sell_token |-> sell_token, buy_token |-> buy_token, sell_amount |-> sell_amount]

\* compute_baselines from its first line to its return, the oracle
\* answering both requests
ComputeBaselines ==
  /\ pc = "baselines"
  /\ call.op = "none"
  /\ LET pair == lr.pair
         buy_units == baseline_quote_sell_units(lr.quote_usd, DInt(lr.baseline_usd),
                                                pair.quote_decimals)
         resp_buy == OracleResponse(market, pair.quote_address, pair.base_address,
                                    buy_units.n)
         parsed_buy == parse_0x_price_response(resp_buy, pair.quote_decimals,
                                               pair.base_decimals)
         unit_buy_baseline == parsed_buy.unit_price_human
         base_usd == infer_base_usd(lr.quote_usd, unit_buy_baseline)
         sell_units == baseline_base_sell_units(base_usd, DInt(lr.baseline_usd),
                                                pair.base_decimals)
         resp_sell == OracleResponse(market, pair.base_address, pair.quote_address,
                                     sell_units.n)
         parsed_sell == parse_0x_price_response(resp_sell, pair.base_decimals,
                                                pair.quote_decimals)
     IN  /\ lr' = [lr EXCEPT !.unit_buy_baseline = unit_buy_baseline,
                             !.base_usd = base_usd,
                             !.unit_sell_baseline = parsed_sell.unit_price_human]
         /\ call' = [NoCall EXCEPT
                       !.op = "compute_baselines",
                       !.args = <<PriceRequest(pair.quote_address, pair.base_address,
                                               buy_units.n),
                                  PriceRequest(pair.base_address, pair.quote_address,
                                               sell_units.n)>>]
  /\ UNCHANGED <<config, token_pairs, ladder_runs, ladder_points, seq_run_id, clock,
                 market, cmd, pc, exit, sched, ro, pending, olog, report, cycles,
                 faults, cmds>>

BaselineNext == ComputeBaselines

BaselineSpec == BaselineInit /\ [][BaselineNext]_vars

(* -------------------------------- C28 --------------------------------- *)

\* floor(usd / price * 10^decimals), price being the fraction it is
FloorUnits(usd, price, decimals) == (usd * price[2] * Pow10(decimals)) \div price[1]

\* the buy/sell ratio of the quote the oracle gives for a request
QuoteRatio(req, sell_decimals, buy_decimals) ==
  parse_0x_price_response(
    OracleResponse(market, req.sell_token, req.buy_token, req.sell_amount),
    sell_decimals, buy_decimals).unit_price_human

\* C28: compute_baselines makes two requests: it sells
\* floor(baseline_usd / quote_usd * 10^quote_dec) raw quote units for base,
\* then floor(baseline_usd / d * 10^base_dec) raw base units for quote,
\* d being base_usd when positive and 1 otherwise; unit_buy_baseline is the
\* ratio of the first quote, base_usd is quote_usd / unit_buy_baseline when
\* that is positive and 0 otherwise, unit_sell_baseline is the ratio of the
\* second quote.
C28_BaselineRequests ==
  call.op = "compute_baselines" =>
    LET pair == lr.pair
        d == IF DPos(lr.base_usd) THEN lr.base_usd ELSE DInt(1)
    IN  /\ Len(call.args) = 2
        /\ call.args[1] =
             PriceRequest(pair.quote_address, pair.base_address,
                          FloorUnits(lr.baseline_usd, lr.quote_usd, pair.quote_decimals))
        /\ call.args[2] =
             PriceRequest(pair.base_address, pair.quote_address,
                          FloorUnits(lr.baseline_usd, d, pair.base_decimals))
        /\ lr.unit_buy_baseline =
             QuoteRatio(call.args[1], pair.quote_decimals, pair.base_decimals)
        /\ lr.base_usd = IF DPos(lr.unit_buy_baseline)
                           THEN DDiv(lr.quote_usd, lr.unit_buy_baseline) ELSE DInt(0)
        /\ lr.unit_sell_baseline =
             QuoteRatio(call.args[2], pair.base_decimals, pair.quote_decimals)

(* ============ token_pairs: upsert_token_pair, remove_pair ============= *)

\* PRIMARY KEY (base_address, pair_address)
same_pair_key(r, q) == r.base_address = q.base_address /\ r.pair_address = q.pair_address

\* INSERT OR IGNORE: a row whose key is taken is dropped
insert_or_ignore_token_pair(tp, row) ==
  IF \E r \in tp : same_pair_key(r, row) THEN tp ELSE tp \cup {row}

\* upsert_token_pair: INSERT ... ON CONFLICT(base_address, pair_address)
\* DO UPDATE SET the five other columns to the excluded row's
upsert_token_pair(tp, row) ==
  IF \E r \in tp : same_pair_key(r, row)
    THEN {IF same_pair_key(r, row)
            THEN [r EXCEPT !.base_symbol = row.base_symbol,
                           !.base_decimals = row.base_decimals,
                           !.quote_address = row.quote_address,
                           !.quote_symbol = row.quote_symbol,
                           !.quote_decimals = row.quote_decimals]
            ELSE r : r \in tp}
    ELSE tp \cup {row}

\* remove_pair: DELETE FROM token_pairs WHERE base_address = ? AND
\* pair_address = ?
remove_pair(tp, base_address, pair_address) ==
  {r \in tp : ~(r.base_address = base_address /\ r.pair_address = pair_address)}

\* the arguments of an upsert for a key: one of two sets of symbols,
\* decimals and quote address
PairArgs(base_address, pair_address, v) ==
  [base_address |-> base_address, base_symbol |-> v, base_decimals |-> 1 + v,
   pair_address |-> pair_address, quote_address |-> WETH_CA + v, quote_symbol |-> 2 + v,
   quote_decimals |-> 3 + v]

PairsInit ==
  /\ pc = "pairs"
  /\ token_pairs = {}
  /\ call = NoCall
  /\ Unused({"config", "ladder_runs", "ladder_points", "seq_run_id", "clock", "market",
             "cmd", "exit", "sched", "ro", "lr", "pending", "olog", "report", "cycles",
             "faults", "cmds"})

PairsFrame ==
  UNCHANGED <<config, ladder_runs, ladder_points, seq_run_id, clock, market, cmd, pc,
              exit, sched, ro, lr, pending, olog, report, cycles, faults, cmds>>

\* upsert_token_pair; call.rows keeps the row the key conflicted with
PairsUpsert ==
  /\ \E base_address \in 1..2, pair_address \in 1..MaxPairs, v \in {0, 1} :
       LET row == PairArgs(base_address, pair_address, v)
           old == {r \in token_pairs : same_pair_key(r, row)}
       IN  /\ token_pairs' = upsert_token_pair(token_pairs, row)
           /\ call' = [NoCall EXCEPT !.op = "upsert_token_pair", !.args = <<row>>,
                                     !.rows = IF old = {} THEN <<>>
                                              ELSE <<CHOOSE r \in old : TRUE>>]
  /\ PairsFrame

\* remove_pair, returning cur.rowcount
PairsRemove ==
  /\ \E base_address \in 1..2, pair_address \in 1..MaxPairs :
       /\ token_pairs' = remove_pair(token_pairs, base_address, pair_address)
       /\ call' = [NoCall EXCEPT !.op = "remove_pair",
                                 !.args = <<base_address, pair_address>>,
                                 !.returned = <<Cardinality(token_pairs)
                                                - Cardinality(token_pairs')>>]
  /\ PairsFrame

PairsNext ==
  \/ PairsUpsert
  \/ PairsRemove

PairsSpec == PairsInit /\ [][PairsNext]_vars

(* -------------------------------- C30 --------------------------------- *)

\* an upsert_token_pair was the last call
Upserted == call.op = "upsert_token_pair"

\* C30: token_pairs never holds two rows with one (base_address,
\* pair_address); after an upsert the row of its key has the symbols,
\* decimals and quote address given, and the rows of other keys are the
\* ones there were before, no more and no fewer.
C30_OneRowPerKey ==
  /\ [](\A r, q \in token_pairs : same_pair_key(r, q) => r = q)
  /\ [][Upserted' =>
          LET row == call'.args[1]
          IN  /\ row \in token_pairs'
              /\ \A r \in token_pairs : ~same_pair_key(r, row) => r \in token_pairs'
              /\ \A r \in token_pairs' :
                   r = row \/ (r \in token_pairs /\ ~same_pair_key(r, row))
     ]_vars

\* an upsert met a row of its key holding other values, a row of another
\* key being there
C30_Witness ==
  /\ Upserted
  /\ call.rows # <<>>
  /\ call.rows[1] # call.args[1]
  /\ call.args[1] \in token_pairs
  /\ Cardinality(token_pairs) >= 2

(* ===================== to_base_units on its own ======================= *)

\* amount strings: Decimal(amount_str) is the number written, with as many
\* digits as written, within the context's precision or one past it,
\* of either sign
AmountChoices ==
  {Dec(sgn * n, den) : sgn \in {1, -1}, n \in {0, 1, 5, 15, 9999, 99995},
                       den \in {1, 10, 1000, 100000}}

DecimalsChoices == 0..2

\* the arguments of one to_base_units call
UnitsInit ==
  /\ pc = "units"
  /\ \E amt \in AmountChoices, decimals \in DecimalsChoices :
       call = [NoCall EXCEPT !.args = <<amt, decimals>>]
  /\ Unused({"config", "token_pairs", "ladder_runs", "ladder_points", "seq_run_id",
             "clock", "market", "cmd", "exit", "sched", "ro", "lr", "pending", "olog",
             "report", "cycles", "faults", "cmds"})

\* to_base_units(amount_str, decimals): raises, or returns the string of n,
\* signed when neg
ToBaseUnits ==
  /\ pc = "units"
  /\ call.op = "none"
  /\ LET units == to_base_units(call.args[1], call.args[2])
     IN  call' = [call EXCEPT !.op = "to_base_units", !.raised = units.raised,
                              !.returned = IF units.raised THEN <<>> ELSE <<units>>]
  /\ UNCHANGED <<config, token_pairs, ladder_runs, ladder_points, seq_run_id, clock,
                 market, cmd, pc, exit, sched, ro, lr, pending, olog, report, cycles,
                 faults, cmds>>

UnitsNext == ToBaseUnits

UnitsSpec == UnitsInit /\ [][UnitsNext]_vars

(* ------------------------------ C31, C39 ------------------------------ *)

\* a to_base_units call has ended
UnitsDone == call.op = "to_base_units"

\* C31: for an amount a >= 0 and decimals d, to_base_units returns the
\* integer n with n <= a * 10^d < n + 1: never more than the amount.
C31_UnitsAreTheFloor ==
  (UnitsDone /\ call.args[1][1] >= 0) =>
    LET a == call.args[1]
        scale == Pow10(call.args[2])
    IN  /\ ~call.raised
        /\ call.returned[1].n * a[2] <= a[1] * scale
        /\ (call.returned[1].n + 1) * a[2] > a[1] * scale

\* C39: for an amount below zero, however small, to_base_units raises
\* ValueError; what it returns is never signed negative.
C39_NegativeAmountsRaise ==
  UnitsDone =>
    /\ call.args[1][1] < 0 => call.raised
    /\ ~call.raised => ~call.returned[1].neg

(* -------------------------------- C33 --------------------------------- *)

RacePairAddresses == <<2>>

\* the two callers: 1 is "run:once --pair 1", 2 is the scheduler's
\* run_once(pair=None, use_all=True, ...)
RaceProcs == {1, 2}

\* a run_once that has not started
RaceIdle == [at |-> "begin", cfg |-> CONFIG_FILE_ABSENT, targets |-> <<>>, idx |-> 0,
             orig_cfg |-> CONFIG_FILE_ABSENT]

RaceInit ==
  /\ pc = "race"
  /\ config = ReadableConfig(TRUE, RacePairAddresses, OnceKeys)
  /\ token_pairs = {PairRow(1), PairRow(2)}
  /\ ro = [p \in RaceProcs |-> RaceIdle]
  /\ report = <<>>
  /\ Unused({"ladder_runs", "ladder_points", "seq_run_id", "clock", "market", "cmd",
             "exit", "sched", "lr", "pending", "olog", "cycles", "faults", "cmds",
             "call"})

RaceFrame ==
  UNCHANGED <<token_pairs, ladder_runs, ladder_points, seq_run_id, clock, market, cmd,
              pc, exit, sched, lr, pending, olog, cycles, faults, cmds, call>>

\* cfg = ensure_defaults(load_cfg()); targets; save_cfg(cfg)
RaceBegin(p) ==
  /\ ro[p].at = "begin"
  /\ LET cfg == ensure_defaults(config)
         targets == IF p = 2 THEN pair_address_of(list_pairs(token_pairs)) ELSE <<1>>
     IN  /\ config' = save_cfg(cfg)
         /\ ro' = [ro EXCEPT ![p] = [RaceIdle EXCEPT !.at = "next", !.cfg = cfg,
                                                     !.targets = targets, !.idx = 1]]
  /\ UNCHANGED report
  /\ RaceFrame

\* orig_cfg, _tmp = apply_pair_override_for_run(p_addr)
RaceOverride(p) ==
  /\ ro[p].at = "next"
  /\ ro[p].idx <= Len(ro[p].targets)
  /\ config' = save_cfg([config EXCEPT !.pair_addresses = <<ro[p].targets[ro[p].idx]>>])
  /\ ro' = [ro EXCEPT ![p].orig_cfg = config, ![p].at = "attempt"]
  /\ UNCHANGED report
  /\ RaceFrame

\* ladder_run(): it reads its target from config.json; the report keeps the
\* row it swept, or none when no row matched (SystemExit)
RaceAttempt(p) ==
  /\ ro[p].at = "attempt"
  /\ LET found == pick_pair(token_pairs, config.pair_addresses)
         target == ro[p].targets[ro[p].idx]
     IN  IF found = {}
           THEN report' = Append(report, [proc |-> p, pair |-> target, row |-> NoRow])
           ELSE \E row \in found :
                  report' = Append(report, [proc |-> p, pair |-> target, row |-> row])
  /\ ro' = [ro EXCEPT ![p].at = "finally"]
  /\ UNCHANGED config
  /\ RaceFrame

\* finally: restore_cfg(orig_cfg)
RaceFinally(p) ==
  /\ ro[p].at = "finally"
  /\ config' = restore_cfg(ro[p].orig_cfg)
  /\ ro' = [ro EXCEPT ![p].idx = @ + 1, ![p].at = "next"]
  /\ UNCHANGED report
  /\ RaceFrame

\* return run_ids
RaceReturn(p) ==
  /\ ro[p].at = "next"
  /\ ro[p].idx > Len(ro[p].targets)
  /\ ro' = [ro EXCEPT ![p].at = "returned"]
  /\ UNCHANGED <<config, report>>
  /\ RaceFrame

RaceNext ==
  \E p \in RaceProcs :
    \/ RaceBegin(p)
    \/ RaceOverride(p)
    \/ RaceAttempt(p)
    \/ RaceFinally(p)
    \/ RaceReturn(p)

RaceSpec == RaceInit /\ [][RaceNext]_vars

(* -------------------------------- C32 --------------------------------- *)

\* C32: when both run_once have returned, however their reads and writes
\* of config.json fell, pair_addresses is what it was before either began.
C32_ConcurrentRunsRestore ==
  (\A p \in RaceProcs : ro[p].at = "returned") =>
     config.pair_addresses = RacePairAddresses

(* -------------------------------- C34 --------------------------------- *)

\* the runs this run_once created for the pair of row
RunsOf(row) ==
  {r \in ladder_runs : /\ \E k \in 1..Len(ro.run_ids) : ro.run_ids[k] = r.id
                       /\ r.base_address = row.base_address
                       /\ r.pair_address = row.pair_address}

\* C34: a run_once over all pairs in which no call failed has created as
\* many runs as token_pairs has rows, one for each row's (base_address,
\* pair_address), also for rows that share a pair_address.
C34_OneRunPerPair ==
  (/\ RunOnceDone
   /\ RoUseAll
   /\ \A k \in 1..Len(report) : report[k].result = "saved") =>
     /\ Len(ro.run_ids) = Cardinality(token_pairs)
     /\ \A row \in token_pairs : Cardinality(RunsOf(row)) = 1

(* -------------------------------- C35 --------------------------------- *)

\* save_ladder_result returns the id of the run it stored
SaveReturns ==
  /\ pc = "save"
  /\ pc' = "ro_finally"
  /\ report'[Len(report')].result = "saved"

\* the sizes of the usd_ladder stored with run rid
StoredLadderSizes(runs, rid) ==
  LET ladder == Val(Val(get_ladder_run(runs, rid)).usd_ladder)
  IN  {ladder[j] : j \in 1..Len(ladder)}

\* C35: when save_ladder_result has stored the result of a ladder.run, the
\* run has a usd_ladder, and the sizes of its points are the sizes of that
\* ladder: the ladder swept, which is the default ladder when the one asked
\* for was empty.
C35_PointsCoverStoredLadder ==
  [][SaveReturns =>
       LET rid == seq_run_id'
       IN  /\ report'[Len(report')].created = {rid}
           /\ ~IsNone(get_ladder_run(ladder_runs', rid))
           /\ ~IsNone(Val(get_ladder_run(ladder_runs', rid)).usd_ladder)
           /\ UsdOf(ladder_points', rid) = StoredLadderSizes(ladder_runs', rid)
           /\ StoredLadderSizes(ladder_runs', rid) = {lr.ladder[j] : j \in 1..Len(lr.ladder)}
  ]_vars

\* ladder_values was an empty list: the run stored has the default ladder
\* and a point for each of its sizes
C35_Witness ==
  /\ pc = "ro_finally"
  /\ config.ladder_values = Some(<<>>)
  /\ Len(report) = 1
  /\ report[1].result = "saved"
  /\ StoredLadderSizes(ladder_runs, seq_run_id) =
       {DEFAULT_USD_LADDER[j] : j \in 1..Len(DEFAULT_USD_LADDER)}
  /\ UsdOf(ladder_points, seq_run_id) = StoredLadderSizes(ladder_runs, seq_run_id)

(* -------------------------------- C37 --------------------------------- *)

\* the scheduler's cycle found no target pair and is about to sleep
NoPairCycleSleeps == IsScheduler /\ pc = "nopairs_sleep"

\* C37: a scheduler cycle that found no target pair (pair_addresses and
\* token_pairs both empty) has asked the oracle nothing and created no run,
\* and before it sleeps config.json holds a heartbeat written in this cycle
\* and no last_scheduler_error.
C37_NoPairCycleStillBeats ==
  NoPairCycleSleeps =>
    /\ olog = <<>>
    /\ ladder_runs = {}
    /\ config.last_scheduler_heartbeat = Some(clock)
    /\ config.last_scheduler_error = None

(* -------------------------------- C36 --------------------------------- *)

\* schedule:run with a readable config.json and at least one pair in
\* token_pairs; nobody interrupts the loop, disables the schedule or damages
\* the file, and every call returns, with a result or with an error
ForeverInit ==
  /\ config \in {c \in ConfigChoices : load_cfg_ok(c)}
  /\ token_pairs \in {ps \in PairChoices : ps # {}}
  /\ ladder_runs = {}
  /\ ladder_points = {}
  /\ seq_run_id = 0
  /\ clock = 1
  /\ market = "steep"
  /\ cmd = Command("schedule:run", None, FALSE, None, None)
  /\ pc = "main"
  /\ exit = NotExited
  /\ sched = SchedIdle
  /\ ro = RoIdle
  /\ lr = LrIdle
  /\ pending = "none"
  /\ olog = <<>>
  /\ report = <<>>
  /\ cycles = 0
  /\ faults = 0
  /\ cmds = 0
  /\ call = NoCall

\* the steps of the process itself
scheduler_loop ==
  \/ Main
  \/ SchedLoadCfg
  \/ SchedIdleSleep
  \/ SchedTargets
  \/ SchedHeartbeat
  \/ SchedIntervalSleep
  \/ RoBegin
  \/ RoOverride
  \/ RoReturn
  \/ RoFinally
  \/ LrStart
  \/ BaselineBuy
  \/ BaselineSell
  \/ RungBuy
  \/ RungSell
  \/ Save

ForeverNext == scheduler_loop \/ CmdScheduleEnable

\* where the process can be
Positions ==
  {"main", "sched_top", "idle_sleep", "sched_targets", "nopairs_sleep",
   "interval_sleep", "ro_begin", "ro_next", "lr_start", "base_buy", "base_sell",
   "rung_buy", "rung_sell", "save", "ro_finally", "ro_return", "exited"}

\* the process has a step to take: it has not exited, and the cycle bound
\* leaves the loop an iteration
Running == pc # "exited" /\ (pc = "sched_top" => cycles < MaxCycles)

\* the process takes a step: each step of scheduler_loop moves it on
Advance == Running /\ \E at \in Positions \ {pc} : pc' = at

\* the process is scheduled: when it has a step to take it eventually moves
ForeverSpec == ForeverInit /\ [][ForeverNext]_vars /\ WF_pc(Advance)

\* a cycle is over: the loop is at the time.sleep(interval) that ends it
CycleCompleted == pc = "interval_sleep"

\* the loop found the schedule disabled and sleeps, and the schedule has
\* been enabled since
EnabledWhileIdle == pc = "idle_sleep" /\ schedule_enabled(config)

\* a cycle with the schedule enabled starts: the loop decides its targets
SweepCycleStarts == pc = "sched_targets"

\* C36: with the schedule enabled and a pair known, no cancellation and
\* every call returning, a completed cycle is eventually followed by the
\* start of another sweep cycle, and a schedule enabled while the loop is
\* idle eventually starts a sweep cycle (for as long as the cycle bound
\* leaves the loop an iteration).
C36_CyclesRecur ==
  /\ (CycleCompleted /\ schedule_enabled(config) /\ cycles < MaxCycles) ~> SweepCycleStarts
  /\ (EnabledWhileIdle /\ cycles < MaxCycles) ~> SweepCycleStarts

(* ===================== get_token_usd on its own ======================= *)

MaxLookups == 3

\* token_prices_live (ca TEXT PRIMARY KEY, symbol, price REAL NOT NULL): in
\* this specification the database holds no other table, and ladder_points
\* keeps its rows
token_prices_live == ladder_points

PriceRowOf(ca, symbol, price) == [ca |-> ca, symbol |-> symbol, price |-> price]

\* get_token_price: the row of ca with its price as a float, or None
get_token_price(table, ca) ==
  IF \E r \in table : r.ca = ca
    THEN LET row == CHOOSE r \in table : r.ca = ca
         IN  Some([row EXCEPT !.price = float(@)])
    ELSE None

\* INSERT ... ON CONFLICT(ca) DO UPDATE SET symbol, price
upsert_token_price(table, ca, symbol, price) ==
  {r \in table : r.ca # ca} \cup {PriceRowOf(ca, symbol, float(price))}

\* Python's truth of data.get(key): the key is there and its number is not 0
Truthy(o) == ~IsNone(o) /\ Val(o)[1] # 0

\* the first of two values that is truthy, else the second: a or b
FirstTruthy(a, b) == IF Truthy(a) THEN a ELSE b

\* extract_symbol_price: symbol, and the first price key that is truthy;
\* RuntimeError when the symbol is "" or no price came out of the chain.
\* A payload has the keys symbol, price and priceUsd (price_usd, usd_price
\* and market are absent).
extract_symbol_price(payload) ==
  LET chain == FirstTruthy(payload.price, payload.priceUsd)
      price == IF Truthy(chain) THEN chain ELSE None
  IN  IF payload.symbol = "" \/ IsNone(price)
        THEN [raised |-> TRUE, symbol |-> "", price |-> DInt(0)]
        ELSE [raised |-> FALSE, symbol |-> payload.symbol, price |-> float(Val(price))]

\* row and row.get("price") not in (None, 0)
cache_hit(row) == ~IsNone(row) /\ Val(row).price[1] # 0

\* get_token_usd(cfg, token_ca): what it returns or that it raised, the
\* table it leaves, and whether it called the price service
get_token_usd(table, ca, payload) ==
  LET row == get_token_price(table, ca)
      got == extract_symbol_price(payload)
  IN  IF cache_hit(row)
        THEN [raised |-> FALSE, price |-> float(Val(row).price), table |-> table,
              fetched |-> FALSE]
      ELSE IF ~payload.ok \/ got.raised
        THEN \* fetch_token_overview or extract_symbol_price raises RuntimeError
             [raised |-> TRUE, price |-> DInt(0), table |-> table, fetched |-> TRUE]
      ELSE [raised |-> FALSE, price |-> float(got.price),
            table |-> upsert_token_price(table, ca, got.symbol, got.price),
            fetched |-> TRUE]

\* the tokens asked about: the quote asset and one other
Tokens == {WETH_CA, 1}

\* prices as JSON numbers
PriceChoices == {DInt(0), DInt(2), Dec(25, 10)}

\* what the price service answers: an HTTP error, or a token overview
Payloads ==
  {[ok |-> FALSE, symbol |-> "", price |-> None, priceUsd |-> None]}
  \cup
  {[ok |-> TRUE, symbol |-> sy, price |-> pr, priceUsd |-> pu] :
     sy \in {"", "W"},
     pr \in {None} \cup {Some(x) : x \in PriceChoices},
     pu \in {None, Some(DInt(3))}}

\* token_prices_live as earlier runs left it: per token no row, a price of
\* 0, or a price
PriceTables ==
  {{PriceRowOf(ca, "W", f[ca]) : ca \in {c \in Tokens : f[c] # DInt(-1)}} :
     f \in [Tokens -> {DInt(-1), DInt(0), DInt(2)}]}

PricesInit ==
  /\ pc = "prices"
  /\ ladder_points \in PriceTables
  /\ olog = <<>>
  /\ report = <<>>
  /\ call = NoCall
  /\ Unused({"config", "token_pairs", "ladder_runs", "seq_run_id", "clock", "market",
             "cmd", "exit", "sched", "ro", "lr", "pending", "cycles", "faults", "cmds"})

\* one get_token_usd call from its first line to its return; olog keeps the
\* calls of the price service, report what each get_token_usd gave
GetTokenUsd ==
  /\ pc = "prices"
  /\ Len(report) < MaxLookups
  /\ \E ca \in Tokens, payload \in Payloads :
       LET r == get_token_usd(token_prices_live, ca, payload)
       IN  /\ call' = [NoCall EXCEPT !.op = "get_token_usd", !.args = <<ca>>,
                                     !.raised = r.raised,
                                     !.returned = IF r.raised THEN <<>> ELSE <<r.price>>]
           /\ ladder_points' = r.table
           /\ olog' = IF r.fetched
                        THEN Append(olog, [ev |-> "token_overview", ca |-> ca,
                                           payload |-> payload])
                        ELSE olog
           /\ report' = Append(report, [ca |-> ca, raised |-> r.raised,
                                        price |-> r.price, fetched |-> r.fetched])
  /\ UNCHANGED <<config, token_pairs, ladder_runs, seq_run_id, clock, market, cmd, pc,
                 exit, sched, ro, lr, pending, cycles, faults, cmds>>

PricesNext == GetTokenUsd

PricesSpec == PricesInit /\ [][PricesNext]_vars

(* -------------------------------- C38 --------------------------------- *)

\* a get_token_usd call has just ended
PriceAsked == call'.op = "get_token_usd" /\ Len(report') = Len(report) + 1

\* the price service answered the last call with a symbol and a price
ServiceGavePrice ==
  LET payload == olog'[Len(olog')].payload
  IN  /\ payload.ok
      /\ payload.symbol # ""
      /\ ~IsNone(payload.price) \/ ~IsNone(payload.priceUsd)

\* C38: get_token_usd answers from token_prices_live, without a call of the
\* price service, when the token's row holds a price other than 0.  With no
\* row or a price of 0 it calls the service once and, the service having
\* answered with a price, stores what it returns; a later call for the
\* token is then answered from the table with the same value.
C38_ReadThroughCache ==
  /\ [][PriceAsked =>
          LET ca == call'.args[1]
              row == get_token_price(token_prices_live, ca)
          IN  IF ~IsNone(row) /\ Val(row).price # DInt(0)
                THEN /\ olog' = olog
                     /\ ~call'.raised
                     /\ call'.returned = <<Val(row).price>>
                ELSE /\ Len(olog') = Len(olog) + 1
                     /\ ServiceGavePrice =>
                          /\ ~call'.raised
                          /\ get_token_price(token_prices_live', ca) =
                               Some(PriceRowOf(ca, olog'[Len(olog')].payload.symbol,
                                               call'.returned[1]))
     ]_vars
  /\ [](\A i, j \in 1..Len(report) :
          (i < j /\ report[i].ca = report[j].ca /\ ~report[i].raised) =>
             /\ ~report[j].fetched
             /\ ~report[j].raised
             /\ report[j].price = report[i].price)

====
